---- MODULE Spec2Model ----
(***************************************************************************)
(* Board / tile matching engine of the mahjong solitaire repository.       *)
(*                                                                         *)
(* Three programs share the engine:                                        *)
(*   "classic"    src/main.py             (blocked above / on both sides)  *)
(*   "extended"   src/main_flet.py        (path with at most two turns)    *)
(*   "solitaire1" src/main_flet_rollback_11.py, game_mode = "solitaire1"   *)
(*   "solitaire2" src/main_flet_rollback_11.py, game_mode = "solitaire2"   *)
(*                                        (slot buffer)                    *)
(* A tile is a record; its identity is its index in the board's list.      *)
(***************************************************************************)
EXTENDS Integers, Sequences, FiniteSets, TLC

VARIABLES
    variant,              \* which program / game_mode runs
    pattern,              \* the 3-D occupancy mask generate_board works on
    pool,                 \* generate_board's local list `tiles` (kinds, in pairs)
    pc,                   \* "generating" while generate_board runs, then "playing", "modes" on the mode page
    attempt,              \* iterations of the retry loop completed
    placements,           \* complete placement passes performed by generate_board
    gen_result,           \* how generate_board returned: "none", "ok", "warned"
    tiles,                \* Board.tiles
    selected_tile,        \* Board.selected_tile (0 = None)
    width,                \* Board.width
    height,               \* Board.height
    game_over,            \* Board.game_over
    reshuffle_prompt_open,\* reshuffle_prompt_open of main()
    shuffle_remaining,    \* shuffle_remaining of main()
    hints_remaining,      \* hints_remaining of main()
    solitaire2_slots,     \* solitaire2_slots (0 = None)
    solitaire2_last_move, \* solitaire2_last_move (NoMove = None)
    solitaire2_third_slot_unlocked,
    solitaire2_pending_removal,
    timers,               \* started threading.Timer callbacks not yet run
    is_paused,            \* is_paused of main()
    threads,              \* where the handler, timer and update_ui threads stand
    game_records,         \* records add_record has written for the board
    ret                   \* the last recorded call of a pure function

vars == << variant, pattern, pool, pc, attempt, placements, gen_result, tiles,
           selected_tile, width, height, game_over, reshuffle_prompt_open,
           shuffle_remaining, hints_remaining, solitaire2_slots,
           solitaire2_last_move, solitaire2_third_slot_unlocked, solitaire2_pending_removal,
           timers, is_paused, threads, game_records, ret >>

---------------------------------------------------------------------------
(* Bounds of the model *)

\* number of tile kinds (the catalogue has 34 resp. 42)
NumKinds == 2
\* scaled pair_count of the fixed-size modes (100 in the source)
PairCount == 2
\* purchased shuffles added to the basic one at game start
MaxBoughtShuffles == 0
\* size of the boards the connectivity search is applied to
ConnW == 3
ConnH == 2
\* scaled Board.width / Board.height defaults and standard rectangle
\* (20 and 10 in the source)
DefaultWidth == 2
DefaultHeight == 2
\* pending threading.Timer callbacks the model follows at once
MaxTimers == 2

(* Program constants *)
max_attempts == 10
DefaultMaxTurns == 2
BaseShuffles == 1
BaseHints == 2
CopiesPerKind == 4
admin_remove_limit == 10

Kinds == 1..NumKinds
None == 0

---------------------------------------------------------------------------
(* Tile *)

Tile(tile_type, x, y, z) ==
    [tile_type |-> tile_type, x |-> x, y |-> y, z |-> z,
     selected |-> FALSE, removed |-> FALSE]

\* Tile.__eq__: two tiles are equal when they have the same type
tile_eq(ts, a, b) == ts[a].tile_type = ts[b].tile_type

RECURSIVE Flatten(_)
Flatten(ss) == IF ss = << >> THEN << >> ELSE Head(ss) \o Flatten(Tail(ss))

Count(s, k) == Cardinality({i \in DOMAIN s : s[i] = k})

---------------------------------------------------------------------------
(* Availability *)

\* some non-removed tile on the same (x, y) with a greater z
covered_from_above(ts, i) ==
    \E j \in DOMAIN ts :
        /\ ~ts[j].removed
        /\ ts[j].x = ts[i].x /\ ts[j].y = ts[i].y /\ ts[j].z > ts[i].z

\* mutant: a removed tile still counts as a neighbour
has_neighbor_counting_removed(ts, i, dx, dy) ==
    \E j \in DOMAIN ts :
        /\ j # i
        /\ ts[j].z = ts[i].z
        /\ ts[j].x = ts[i].x + dx
        /\ ts[j].y = ts[i].y + dy

has_neighbor(ts, i, dx, dy) ==
    \E j \in DOMAIN ts :
        /\ j # i
        /\ ~ts[j].removed
        /\ ts[j].z = ts[i].z
        /\ ts[j].x = ts[i].x + dx
        /\ ts[j].y = ts[i].y + dy

has_adjacent_same_type(ts, i, dx, dy) ==
    \E j \in DOMAIN ts :
        /\ j # i
        /\ ~ts[j].removed
        /\ ts[j].tile_type = ts[i].tile_type
        /\ ts[j].z = ts[i].z
        /\ ts[j].x = ts[i].x + dx
        /\ ts[j].y = ts[i].y + dy

lateral_directions == { <<-1, 0>>, <<1, 0>>, <<0, -1>>, <<0, 1>> }

\* mutant: blocked as soon as one lateral side is occupied
sides_blocked_either(left_blocked, right_blocked) == left_blocked \/ right_blocked

\* main.py: `not (left_blocked and right_blocked)` is the negation of this
sides_blocked(left_blocked, right_blocked) == left_blocked /\ right_blocked

\* src/main.py Board.is_tile_available
is_tile_available_main(ts, i) ==
    IF ts[i].removed THEN FALSE
    ELSE IF covered_from_above(ts, i) THEN FALSE
    ELSE LET left_blocked ==
                 \E j \in DOMAIN ts : /\ ~ts[j].removed
                                      /\ ts[j].z = ts[i].z /\ ts[j].y = ts[i].y
                                      /\ ts[j].x = ts[i].x - 1
             right_blocked ==
                 \E j \in DOMAIN ts : /\ ~ts[j].removed
                                      /\ ts[j].z = ts[i].z /\ ts[j].y = ts[i].y
                                      /\ ts[j].x = ts[i].x + 1
         IN  ~sides_blocked(left_blocked, right_blocked)

\* mutant: the same-kind-adjacency shortcut is missing
same_type_shortcut_none(ts, i) == FALSE

\* the last return of the extended rule
same_type_shortcut(ts, i) ==
    \E d \in lateral_directions : has_adjacent_same_type(ts, i, d[1], d[2])

\* mutant: a tile is found available without looking above it
is_tile_available_flet_uncovered(ts, i) ==
    IF ts[i].removed THEN FALSE
    ELSE IF \E d \in lateral_directions : ~has_neighbor(ts, i, d[1], d[2])
         THEN TRUE
    ELSE same_type_shortcut(ts, i)

\* src/main_flet.py Board.is_tile_available
is_tile_available_flet(ts, i) ==
    IF ts[i].removed THEN FALSE
    ELSE IF covered_from_above(ts, i) THEN FALSE
    ELSE IF \E d \in lateral_directions : ~has_neighbor(ts, i, d[1], d[2])
         THEN TRUE
    ELSE same_type_shortcut(ts, i)

\* src/main_flet_rollback_11.py Board.is_tile_available
is_tile_available_r11(game_mode, ts, i) ==
    IF ts[i].removed THEN FALSE
    ELSE IF game_mode = "solitaire2"
         THEN IF covered_from_above(ts, i) THEN FALSE
              ELSE LET left_blocked == has_neighbor(ts, i, -1, 0)
                       right_blocked == has_neighbor(ts, i, 1, 0)
                   IN  ~(left_blocked /\ right_blocked)
    ELSE IF covered_from_above(ts, i) THEN FALSE
    ELSE IF \E d \in lateral_directions : ~has_neighbor(ts, i, d[1], d[2])
         THEN TRUE
    ELSE same_type_shortcut(ts, i)

\* the availability predicate of the running program
is_tile_available(v, ts, i) ==
    CASE v = "classic"  -> is_tile_available_main(ts, i)
      [] v = "extended" -> is_tile_available_flet(ts, i)
      [] OTHER          -> is_tile_available_r11(v, ts, i)

\* the indices of the available tiles, in board order
get_available_tiles(v, ts) ==
    SelectSeq([i \in DOMAIN ts |-> i], LAMBDA i : is_tile_available(v, ts, i))

---------------------------------------------------------------------------
(* Connectivity search *)

NoDirection == -1
NoSlot == -1
directions == << <<0, -1>>, <<1, 0>>, <<0, 1>>, <<-1, 0>> >>

\* `t in (tile1, tile2)`: Python's tuple membership is identity or __eq__
in_endpoints(ts, t, tile1, tile2) ==
    \/ t = tile1 \/ tile_eq(ts, t, tile1)
    \/ t = tile2 \/ tile_eq(ts, t, tile2)

occupied(ts, tile1, tile2) ==
    { <<ts[t].x, ts[t].y>> :
        t \in {u \in DOMAIN ts : ~ts[u].removed /\ ~in_endpoints(ts, u, tile1, tile2)} }

is_free(x, y, dest, occ, w, h) ==
    IF <<x, y>> = dest THEN TRUE
    ELSE IF x < -1 \/ x > w \/ y < -1 \/ y > h THEN FALSE
    ELSE IF x < 0 \/ x >= w \/ y < 0 \/ y >= h THEN TRUE
    ELSE <<x, y>> \notin occ

\* mutant: the visited map forgets the incoming direction
state_key_cell_only(nx, ny, dir_idx) == <<nx, ny, 0>>

\* state = (nx, ny, dir_idx)
state_key(nx, ny, dir_idx) == <<nx, ny, dir_idx>>

\* mutant: a change of direction costs no turn
turn_cost_free(direction, dir_idx) == 0

\* turns + (0 if direction == dir_idx or direction is None else 1)
turn_cost(direction, dir_idx) ==
    IF direction = dir_idx \/ direction = NoDirection THEN 0 ELSE 1

\* mutant: a state reached again with the same turn count is queued again
already_reached_strictly(seen, state, next_turns) ==
    state \in DOMAIN seen /\ seen[state] < next_turns

\* prev_turns is not None and prev_turns <= next_turns
already_reached(seen, state, next_turns) ==
    state \in DOMAIN seen /\ seen[state] <= next_turns

\* the pop of the queue's head is the end of the loop: the target is reached
at_dest(cur, dest, max_turns) ==
    <<cur.x, cur.y>> = dest /\ cur.turns <= max_turns

\* One iteration of the while loop of can_connect past the return: the head
\* is popped and the for loop runs over the four directions.  The four
\* candidate states of one pop differ in dir_idx, so the seen-test of one
\* does not read what another has just written.
search_step(queue, seen, dest, occ, w, h, max_turns) ==
    LET cur == Head(queue)
        nx(d) == cur.x + directions[d + 1][1]
        ny(d) == cur.y + directions[d + 1][2]
        next_turns(d) == cur.turns + turn_cost(cur.direction, d)
        enqueued(d) ==
            /\ ~(next_turns(d) > max_turns \/ ~is_free(nx(d), ny(d), dest, occ, w, h))
            /\ ~already_reached(seen, state_key(nx(d), ny(d), d), next_turns(d))
        dirs == SelectSeq(<<0, 1, 2, 3>>, enqueued)
        added == [n \in 1..Len(dirs) |->
                    [x |-> nx(dirs[n]), y |-> ny(dirs[n]),
                     direction |-> dirs[n], turns |-> next_turns(dirs[n])]]
        keys == {state_key(nx(dirs[n]), ny(dirs[n]), dirs[n]) : n \in 1..Len(dirs)}
        seen2 == [s \in DOMAIN seen \cup keys |->
                    IF s \in keys
                    THEN LET n == CHOOSE m \in 1..Len(dirs) :
                                    state_key(nx(dirs[m]), ny(dirs[m]), dirs[m]) = s
                         IN  next_turns(dirs[n])
                    ELSE seen[s]]
    IN [queue |-> Tail(queue) \o added, seen |-> seen2]

\* The while loop of can_connect
RECURSIVE search(_, _, _, _, _, _, _)
search(queue, seen, dest, occ, w, h, max_turns) ==
    IF queue = << >> THEN FALSE
    ELSE IF at_dest(Head(queue), dest, max_turns) THEN TRUE
    ELSE LET s == search_step(queue, seen, dest, occ, w, h, max_turns)
         IN  search(s.queue, s.seen, dest, occ, w, h, max_turns)

\* the number of iterations of the while loop of can_connect, counted up to
\* `limit` + 1
RECURSIVE search_pops(_, _, _, _, _, _, _, _, _)
search_pops(queue, seen, dest, occ, w, h, max_turns, n, limit) ==
    IF queue = << >> \/ n > limit THEN n
    ELSE IF at_dest(Head(queue), dest, max_turns) THEN n + 1
    ELSE LET s == search_step(queue, seen, dest, occ, w, h, max_turns)
         IN  search_pops(s.queue, s.seen, dest, occ, w, h, max_turns, n + 1,
                         limit)

\* some (x, y, direction, turns) is appended to the queue a second time
RECURSIVE search_requeues(_, _, _, _, _, _, _, _)
search_requeues(queue, seen, dest, occ, w, h, max_turns, done) ==
    IF queue = << >> THEN FALSE
    ELSE IF at_dest(Head(queue), dest, max_turns) THEN FALSE
    ELSE LET s == search_step(queue, seen, dest, occ, w, h, max_turns)
             added == {s.queue[n] : n \in Len(queue)..Len(s.queue)}
         IN  IF added \cap done # {} THEN TRUE
             ELSE search_requeues(s.queue, s.seen, dest, occ, w, h, max_turns,
                                  done \cup added)

\* the search of can_connect from tile1's cell to tile2's cell over `occ`
connect_search(ts, tile1, tile2, occ, w, h, max_turns) ==
    LET start == <<ts[tile1].x, ts[tile1].y>>
        dest == <<ts[tile2].x, ts[tile2].y>>
    IN  search(<< [x |-> start[1], y |-> start[2],
                   direction |-> NoDirection, turns |-> 0] >>,
               [s \in { <<start[1], start[2], NoDirection>> } |-> 0],
               dest, occ, w, h, max_turns)

\* Board.can_connect
can_connect(ts, w, h, tile1, tile2, max_turns) ==
    IF tile1 = tile2 \/ ts[tile1].tile_type # ts[tile2].tile_type THEN FALSE
    ELSE connect_search(ts, tile1, tile2, occupied(ts, tile1, tile2), w, h, max_turns)

---------------------------------------------------------------------------
(* Patterns and placement *)

full_layer(w, h) == [y \in 1..h |-> [x \in 1..w |-> TRUE]]

\* main_flet.py _create_pyramid_pattern: one full rectangular layer
\* (20 x 10 in the source), also the fallback of solitaire1
pattern_rectangle == << full_layer(DefaultWidth, DefaultHeight) >>

\* main.py _create_pyramid_pattern: layer 0 holds more cells than there are
\* tiles, the upper layers are never reached by the placement
pattern_main ==
    << full_layer(3, 3),
       << <<FALSE, FALSE, FALSE>>, <<FALSE, TRUE, FALSE>>, <<FALSE, FALSE, FALSE>> >> >>

\* patterns/*.json read by _load_random_saved_pattern: two cells with one
\* cell on top (an odd number of cells); a full layer; two cells both
\* covered
saved_patterns ==
    { << << <<TRUE, TRUE>> >>, << <<TRUE, FALSE>> >> >>,
      << full_layer(DefaultWidth, DefaultHeight) >>,
      << << <<TRUE, TRUE>> >>, << <<TRUE, TRUE>> >> >> }

\* the pattern _create_pyramid_pattern may return
patterns_of(v) ==
    CASE v = "classic"    -> {pattern_main}
      [] v = "extended"   -> {pattern_rectangle}
      [] v = "solitaire1" -> saved_patterns \cup {pattern_rectangle}
      [] OTHER            -> saved_patterns

\* the cells in the order of the three nested enumerate loops
pattern_cells(p) ==
    Flatten([zz \in 1..Len(p) |->
        Flatten([yy \in 1..Len(p[zz]) |->
            [xx \in 1..Len(p[zz][yy]) |->
                [x |-> xx - 1, y |-> yy - 1, z |-> zz - 1,
                 has_tile |-> p[zz][yy][xx]]]])])

total_tile_positions(p) ==
    Cardinality({n \in DOMAIN pattern_cells(p) : pattern_cells(p)[n].has_tile})

\* mutant: the column of the cell is not passed to the new tile
placed_tile_column_zero(tile_type, cell) == Tile(tile_type, 0, cell.y, cell.z)

\* Tile(board_tiles[tile_index], x, y, z)
placed_tile(tile_type, cell) == Tile(tile_type, cell.x, cell.y, cell.z)

\* the placement loop of main.py and main_flet_rollback_11.py: tile_index
\* advances when a tile is placed
RECURSIVE place(_, _, _)
place(cells, board_tiles, tile_index) ==
    IF cells = << >> THEN << >>
    ELSE IF Head(cells).has_tile /\ tile_index < Len(board_tiles)
         THEN << placed_tile(board_tiles[tile_index + 1], Head(cells)) >>
              \o place(Tail(cells), board_tiles, tile_index + 1)
         ELSE place(Tail(cells), board_tiles, tile_index)

\* the placement loop of main_flet.py: tile_index advances on every cell
RECURSIVE place_flet(_, _, _)
place_flet(cells, board_tiles, tile_index) ==
    IF cells = << >> THEN << >>
    ELSE IF Head(cells).has_tile /\ tile_index < Len(board_tiles)
         THEN << placed_tile(board_tiles[tile_index + 1], Head(cells)) >>
              \o place_flet(Tail(cells), board_tiles, tile_index + 1)
         ELSE place_flet(Tail(cells), board_tiles, tile_index + 1)

\* random.shuffle: every arrangement of the same kinds
shuffles(s) ==
    {t \in [DOMAIN s -> Kinds] : \A k \in Kinds : Count(t, k) = Count(s, k)}

\* tiles.extend([tile_type] * 2) for each of pair_choices
doubled(pair_choices) ==
    [n \in 1..(2 * Len(pair_choices)) |-> pair_choices[(n + 1) \div 2]]

\* pair_count of main_flet_rollback_11.py generate_board
pair_count_r11(game_mode, p) ==
    IF game_mode = "solitaire2"
    THEN (IF total_tile_positions(p) % 2 # 0
          THEN total_tile_positions(p) + 1
          ELSE total_tile_positions(p)) \div 2
    ELSE PairCount

\* main.py: every basic tile type four times
pairs_main == Flatten([k \in 1..NumKinds |-> [n \in 1..CopiesPerKind |-> k]])

---------------------------------------------------------------------------
(* Termination checks *)

is_game_won(ts) == \A i \in DOMAIN ts : ts[i].removed

\* mutant: any two available tiles of equal kind count as a move
has_possible_moves_unconnected(v, ts, w, h) ==
    LET available == get_available_tiles(v, ts) IN
    \E m \in 1..Len(available) : \E n \in (m + 1)..Len(available) :
        tile_eq(ts, available[m], available[n])

\* Board.has_possible_moves of main_flet.py and main_flet_rollback_11.py
has_possible_moves(v, ts, w, h) ==
    LET available == get_available_tiles(v, ts) IN
    IF Len(available) < 2 THEN FALSE
    ELSE \E m \in 1..Len(available) : \E n \in (m + 1)..Len(available) :
            /\ tile_eq(ts, available[m], available[n])
            /\ can_connect(ts, w, h, available[m], available[n], DefaultMaxTurns)

\* no pair: the None of find_hint_pair
NoPair == << >>

\* the nested loops of find_hint_pair from available[m], available[n] on
RECURSIVE hint_scan(_, _, _, _, _, _)
hint_scan(ts, w, h, available, m, n) ==
    IF m > Len(available) THEN NoPair
    ELSE IF n > Len(available) THEN hint_scan(ts, w, h, available, m + 1, m + 2)
    ELSE IF /\ tile_eq(ts, available[m], available[n])
            /\ can_connect(ts, w, h, available[m], available[n], DefaultMaxTurns)
         THEN <<available[m], available[n]>>
    ELSE hint_scan(ts, w, h, available, m, n + 1)

\* mutant: the inner loop of the first tile starts one tile late
find_hint_pair_late_start(v, ts, w, h) ==
    hint_scan(ts, w, h, get_available_tiles(v, ts), 1, 3)

\* Board.find_hint_pair of main_flet.py and main_flet_rollback_11.py
find_hint_pair(v, ts, w, h) ==
    hint_scan(ts, w, h, get_available_tiles(v, ts), 1, 2)


\* Board.is_game_lost of main.py
is_game_lost_main(ts) ==
    LET available == get_available_tiles("classic", ts) IN
    IF Len(available) < 2 THEN TRUE
    ELSE ~\E m \in 1..Len(available) : \E n \in (m + 1)..Len(available) :
            tile_eq(ts, available[m], available[n])

is_game_lost(v, ts, w, h) ==
    IF v = "classic" THEN is_game_lost_main(ts) ELSE ~has_possible_moves(v, ts, w, h)

\* check_game_state of main_flet.py and main_flet_rollback_11.py (never
\* paused, no_moves_dialog_open never set): the flags it leaves
\* mutant: a board without a move ends the game without asking the player
check_game_state_ending_at_once(v, ts, w, h, over, prompt) ==
    IF over THEN [game_over |-> over, reshuffle_prompt_open |-> prompt]
    ELSE IF is_game_won(ts)
         THEN [game_over |-> TRUE, reshuffle_prompt_open |-> prompt]
    ELSE IF prompt THEN [game_over |-> over, reshuffle_prompt_open |-> prompt]
    ELSE IF ~has_possible_moves(v, ts, w, h)
         THEN [game_over |-> TRUE, reshuffle_prompt_open |-> prompt]
    ELSE [game_over |-> over, reshuffle_prompt_open |-> prompt]

check_game_state(v, ts, w, h, over, prompt) ==
    IF over THEN [game_over |-> over, reshuffle_prompt_open |-> prompt]
    ELSE IF is_game_won(ts)
         THEN [game_over |-> TRUE, reshuffle_prompt_open |-> prompt]
    ELSE IF prompt THEN [game_over |-> over, reshuffle_prompt_open |-> prompt]
    ELSE IF ~has_possible_moves(v, ts, w, h)
         THEN [game_over |-> over, reshuffle_prompt_open |-> TRUE]
    ELSE [game_over |-> over, reshuffle_prompt_open |-> prompt]

---------------------------------------------------------------------------
(* Recorded calls of the pure functions *)

NoCall == [op |-> "none", a |-> 0, b |-> 0, k |-> 0, val |-> FALSE]
NoMove == [tile |-> 0, x |-> 0, y |-> 0, z |-> 0, slot_index |-> 0]

\* no handler, timer callback or update_ui task is under way
IdleThreads == [ui |-> "idle", timer |-> "idle", task |-> "idle"]

\* a game that is not paused, with no thread inside a handler and no
\* record written for its board
IdleSession ==
    /\ is_paused = FALSE
    /\ threads = IdleThreads
    /\ game_records = 0

\* the values of the variables a specification of one function leaves idle
IdleGame ==
    /\ pattern = << >>
    /\ pool = << >>
    /\ pc = "playing"
    /\ attempt = 0
    /\ placements = 0
    /\ gen_result = "none"
    /\ selected_tile = None
    /\ game_over = FALSE
    /\ reshuffle_prompt_open = FALSE
    /\ shuffle_remaining = 0
    /\ hints_remaining = 0
    /\ solitaire2_slots = <<None, None, None>>
    /\ solitaire2_last_move = NoMove
    /\ solitaire2_third_slot_unlocked = FALSE
    /\ solitaire2_pending_removal = FALSE
    /\ timers = 0
    /\ ret = NoCall

---------------------------------------------------------------------------
(* Specification of can_connect alone: every single-layer board of        *)
(* ConnW x ConnH cells, each cell empty or holding a tile of some kind.   *)

ConnCells ==
    [n \in 1..(ConnW * ConnH) |-> [x |-> (n - 1) % ConnW, y |-> (n - 1) \div ConnW]]

ConnBoard(f) ==
    LET used == SelectSeq([n \in 1..(ConnW * ConnH) |-> n], LAMBDA n : f[n] # 0)
    IN  [m \in 1..Len(used) |->
            Tile(f[used[m]], ConnCells[used[m]].x, ConnCells[used[m]].y, 0)]

InitConnect ==
    /\ IdleSession
    /\ variant = "extended"
    /\ \E f \in [1..(ConnW * ConnH) -> 0..NumKinds] : tiles = ConnBoard(f)
    /\ width = ConnW
    /\ height = ConnH
    /\ IdleGame

\* one call per behaviour: the call changes nothing it reads
CanConnectCall ==
    \E a \in DOMAIN tiles, b \in DOMAIN tiles, k \in 0..DefaultMaxTurns :
        /\ ret = NoCall
        /\ ret' = [op |-> "can_connect", a |-> a, b |-> b, k |-> k,
                   val |-> can_connect(tiles, width, height, a, b, k)]
        /\ UNCHANGED << variant, is_paused, threads, game_records, hints_remaining, pattern, pool, pc, attempt, placements,
                        gen_result, tiles, selected_tile, width, height,
                        game_over, reshuffle_prompt_open, shuffle_remaining,
                        solitaire2_slots, solitaire2_last_move,
                        solitaire2_third_slot_unlocked,
                        solitaire2_pending_removal, timers >>

NextConnect == CanConnectCall

SpecConnect == InitConnect /\ [][NextConnect]_vars

\* the occupancy the specification describes: every other non-removed tile
occupied_all_others(ts, tile1, tile2) ==
    { <<ts[t].x, ts[t].y>> :
        t \in {u \in DOMAIN ts : ~ts[u].removed /\ u # tile1 /\ u # tile2} }

\* C9: can_connect is symmetric: the recorded call can_connect(a, b, k)
\* returned what can_connect(b, a, k) returns on the same board.
C9_Symmetric ==
    ret.op = "can_connect" =>
        ret.val = can_connect(tiles, width, height, ret.b, ret.a, ret.k)

\* a call that succeeded only by routing around a blocking tile
C9_Witness ==
    /\ ret.op = "can_connect" /\ ret.val /\ ret.k = 2
    /\ ~can_connect(tiles, width, height, ret.a, ret.b, 1)
    /\ can_connect(tiles, width, height, ret.b, ret.a, 2)

\* C10: the cell of every non-removed tile other than the two endpoints is
\* occupied whatever its kind: the recorded call returned what the search
\* returns when all other live tiles block.
C10_ThirdTilesBlock ==
    ret.op = "can_connect" =>
        ret.val = IF ret.a = ret.b \/ ~tile_eq(tiles, ret.a, ret.b) THEN FALSE
                  ELSE connect_search(tiles, ret.a, ret.b,
                                      occupied_all_others(tiles, ret.a, ret.b),
                                      width, height, ret.k)

\* tiles a and b lie on one row and no non-removed tile lies strictly
\* between them
row_clear(ts, a, b) ==
    /\ ts[a].y = ts[b].y
    /\ ~\E t \in DOMAIN ts :
          /\ ~ts[t].removed /\ ts[t].y = ts[a].y
          /\ \/ ts[a].x < ts[t].x /\ ts[t].x < ts[b].x
             \/ ts[b].x < ts[t].x /\ ts[t].x < ts[a].x

\* tiles a and b lie on one row, the only other non-removed tile of the
\* board lies strictly between them and is of another kind
lone_blocker(ts, a, b) ==
    /\ ts[a].y = ts[b].y
    /\ \E t \in DOMAIN ts :
          /\ t # a /\ t # b /\ ~ts[t].removed
          /\ ts[t].tile_type # ts[a].tile_type
          /\ ts[t].y = ts[a].y
          /\ \/ ts[a].x < ts[t].x /\ ts[t].x < ts[b].x
             \/ ts[b].x < ts[t].x /\ ts[t].x < ts[a].x
          /\ \A u \in DOMAIN ts : (u # a /\ u # b /\ u # t) => ts[u].removed

\* C11: for two distinct same-kind tiles on one row, can_connect is true
\* with 0 turns when only empty cells lie between them; when the only other
\* tile of the board, of another kind, sits between them, can_connect is
\* true with max_turns = 2 and false with fewer; and a call that succeeds
\* with k turns succeeds with every larger bound.
C11_RowConnectivity ==
    (ret.op = "can_connect" /\ ret.a # ret.b /\ tile_eq(tiles, ret.a, ret.b)) =>
        /\ row_clear(tiles, ret.a, ret.b) =>
              (ret.val /\ can_connect(tiles, width, height, ret.a, ret.b, 0))
        /\ lone_blocker(tiles, ret.a, ret.b) =>
              /\ ret.val <=> ret.k >= 2
              /\ can_connect(tiles, width, height, ret.a, ret.b, 2)
              /\ ~can_connect(tiles, width, height, ret.a, ret.b, 1)
        /\ ret.val =>
              \A k2 \in ret.k..(DefaultMaxTurns + 1) :
                  can_connect(tiles, width, height, ret.a, ret.b, k2)

\* the call with max_turns = 1 across a lone blocking tile, which fails
C11_Witness ==
    /\ ret.op = "can_connect" /\ ret.a # ret.b
    /\ tile_eq(tiles, ret.a, ret.b)
    /\ lone_blocker(tiles, ret.a, ret.b)
    /\ ret.k = 1 /\ ~ret.val

---------------------------------------------------------------------------
(* Specification of is_tile_available alone: a cross of five cells on     *)
(* layer 0 and one cell above its centre, every tile of any kind, removed *)
(* or not, under each of the programs.                                    *)

Variants == {"classic", "extended", "solitaire1", "solitaire2"}

CrossCells ==
    << <<1, 0, 0>>, <<0, 1, 0>>, <<1, 1, 0>>, <<2, 1, 0>>, <<1, 2, 0>>, <<1, 1, 1>> >>

InitAvail ==
    /\ IdleSession
    /\ variant \in Variants
    /\ \E kinds \in [DOMAIN CrossCells -> Kinds],
          gone \in [DOMAIN CrossCells -> BOOLEAN] :
          tiles = [n \in DOMAIN CrossCells |->
                      [Tile(kinds[n], CrossCells[n][1], CrossCells[n][2],
                            CrossCells[n][3]) EXCEPT !.removed = gone[n]]]
    /\ width = 3
    /\ height = 3
    /\ IdleGame

IsTileAvailableCall ==
    \E i \in DOMAIN tiles :
        /\ ret = NoCall
        /\ ret' = [op |-> "is_tile_available", a |-> i, b |-> 0, k |-> 0,
                   val |-> is_tile_available(variant, tiles, i)]
        /\ UNCHANGED << variant, is_paused, threads, game_records, hints_remaining, pattern, pool, pc, attempt, placements,
                        gen_result, tiles, selected_tile, width, height,
                        game_over, reshuffle_prompt_open, shuffle_remaining,
                        solitaire2_slots, solitaire2_last_move,
                        solitaire2_third_slot_unlocked,
                        solitaire2_pending_removal, timers >>

\* a removal: `tile.removed = True`, as click_tile, tile_clicked and
\* admin_remove_10_tiles perform it
RemoveTile ==
    \E i \in DOMAIN tiles :
        /\ ret.op \in {"none", "removed"}
        /\ ~tiles[i].removed
        /\ tiles' = [tiles EXCEPT ![i].removed = TRUE]
        /\ ret' = [op |-> "removed", a |-> i, b |-> 0, k |-> 0, val |-> FALSE]
        /\ UNCHANGED << variant, is_paused, threads, game_records, hints_remaining, pattern, pool, pc, attempt, placements,
                        gen_result, selected_tile, width, height,
                        game_over, reshuffle_prompt_open, shuffle_remaining,
                        solitaire2_slots, solitaire2_last_move,
                        solitaire2_third_slot_unlocked,
                        solitaire2_pending_removal, timers >>

NextAvail == IsTileAvailableCall \/ RemoveTile

SpecAvail == InitAvail /\ [][NextAvail]_vars

\* a non-removed tile at cell (x, y, z)
LiveAt(ts, x, y, z) ==
    \E j \in DOMAIN ts :
        ~ts[j].removed /\ ts[j].x = x /\ ts[j].y = y /\ ts[j].z = z

\* a non-removed tile of kind k at cell (x, y, z)
LiveKindAt(ts, k, x, y, z) ==
    \E j \in DOMAIN ts :
        /\ ~ts[j].removed /\ ts[j].tile_type = k
        /\ ts[j].x = x /\ ts[j].y = y /\ ts[j].z = z

\* some non-removed tile lies above tile i
Under(ts, i) ==
    \E j \in DOMAIN ts :
        ~ts[j].removed /\ ts[j].x = ts[i].x /\ ts[j].y = ts[i].y /\ ts[j].z > ts[i].z

\* C5: under every rule a removed tile is not available, and a tile with a
\* non-removed tile on the same (x, y) at a greater z is not available.
C5_RemovedOrCoveredUnavailable ==
    \A i \in DOMAIN tiles :
        /\ tiles[i].removed => ~is_tile_available(variant, tiles, i)
        /\ Under(tiles, i) => ~is_tile_available(variant, tiles, i)

\* the predicate was asked about a live tile that lies under a live tile
\* and has a free lateral side, and answered false
C5_Witness ==
    /\ ret.op = "is_tile_available" /\ ~ret.val
    /\ ~tiles[ret.a].removed /\ Under(tiles, ret.a)
    /\ ~LiveAt(tiles, tiles[ret.a].x - 1, tiles[ret.a].y, tiles[ret.a].z)

\* C6: a removal never makes an available tile that stays on the board
\* unavailable.
C6_MonotonicUnderRemoval ==
    [][\A i \in DOMAIN tiles :
          (is_tile_available(variant, tiles, i) /\ ~tiles'[i].removed)
              => is_tile_available(variant, tiles', i)]_vars

\* the neighbour through which the centre tile had its same-kind shortcut
\* was removed, the three other neighbours are of another kind, and the
\* centre tile is available
C6_Witness ==
    /\ variant = "extended"
    /\ ret.op = "removed" /\ ret.a = 2
    /\ tiles[2].tile_type = tiles[3].tile_type
    /\ \A n \in {1, 4, 5} : ~tiles[n].removed /\ tiles[n].tile_type # tiles[3].tile_type
    /\ tiles[6].removed
    /\ is_tile_available(variant, tiles, 3)

\* C7: classic rule: a live tile with nothing above it is unavailable
\* exactly when live tiles occupy both (x-1, y, z) and (x+1, y, z).
C7_ClassicRule ==
    variant \in {"classic", "solitaire2"} =>
        \A i \in DOMAIN tiles :
            (~tiles[i].removed /\ ~Under(tiles, i)) =>
                (~is_tile_available(variant, tiles, i)
                    <=> (/\ LiveAt(tiles, tiles[i].x - 1, tiles[i].y, tiles[i].z)
                         /\ LiveAt(tiles, tiles[i].x + 1, tiles[i].y, tiles[i].z)))

\* the centre tile, with live tiles in front, behind and on one side only,
\* was found available
C7_Witness ==
    /\ variant \in {"classic", "solitaire2"}
    /\ ret.op = "is_tile_available" /\ ret.a = 3 /\ ret.val
    /\ \A n \in {1, 2, 5} : ~tiles[n].removed
    /\ tiles[4].removed

\* C8: extended rule: a live tile with nothing above it is available
\* exactly when one of its four neighbour cells holds no live tile or one
\* of them holds a live tile of its kind.
C8_ExtendedRule ==
    variant \in {"extended", "solitaire1"} =>
        \A i \in DOMAIN tiles :
            (~tiles[i].removed /\ ~Under(tiles, i)) =>
                (is_tile_available(variant, tiles, i)
                    <=> \/ \E d \in lateral_directions :
                              ~LiveAt(tiles, tiles[i].x + d[1], tiles[i].y + d[2],
                                      tiles[i].z)
                        \/ \E d \in lateral_directions :
                              LiveKindAt(tiles, tiles[i].tile_type,
                                         tiles[i].x + d[1], tiles[i].y + d[2],
                                         tiles[i].z))

\* the centre tile, enclosed by four live tiles one of which has its kind,
\* was found available
C8_Witness ==
    /\ variant \in {"extended", "solitaire1"}
    /\ ret.op = "is_tile_available" /\ ret.a = 3 /\ ret.val
    /\ \A n \in {1, 2, 4, 5} : ~tiles[n].removed
    /\ tiles[6].removed
    /\ \E n \in {1, 2, 4, 5} : tiles[n].tile_type = tiles[3].tile_type

---------------------------------------------------------------------------
(* The game: board construction *)

GameModes == {"solitaire1", "solitaire2"}

\* Board.__init__ has run up to the call of generate_board, the pattern is
\* chosen and pair_choices are drawn; the page state is that of
\* start_new_game
Init ==
    /\ IdleSession
    /\ variant \in Variants
    /\ pattern \in patterns_of(variant)
    /\ pool \in IF variant = "classic" THEN {pairs_main}
                ELSE {doubled(pc_) : pc_ \in
                        [1..(IF variant = "extended" THEN PairCount
                             ELSE pair_count_r11(variant, pattern)) -> Kinds]}
    /\ pc = "generating"
    /\ attempt = 0
    /\ placements = 0
    /\ gen_result = "none"
    /\ tiles = << >>
    /\ selected_tile = None
    /\ width = DefaultWidth
    /\ height = DefaultHeight
    /\ game_over = FALSE
    /\ reshuffle_prompt_open = FALSE
    /\ shuffle_remaining \in BaseShuffles..(BaseShuffles + MaxBoughtShuffles)
    /\ hints_remaining = BaseHints
    /\ solitaire2_slots = <<None, None, None>>
    /\ solitaire2_last_move = NoMove
    /\ solitaire2_third_slot_unlocked = FALSE
    /\ solitaire2_pending_removal = FALSE
    /\ timers = 0
    /\ ret = NoCall

\* the first update_board() of the new game, which ends in check_game_state()
FirstUpdate(ts, w, h) ==
    LET st == check_game_state(variant, ts, w, h, FALSE, FALSE) IN
    /\ game_over' = st.game_over
    /\ reshuffle_prompt_open' = st.reshuffle_prompt_open

\* main.py generate_board: one shuffle, one placement, no check
GenerateMain ==
    /\ pc = "generating"
    /\ variant = "classic"
    /\ \E board_tiles \in shuffles(pool) :
          tiles' = place(pattern_cells(pattern), board_tiles, 0)
    /\ placements' = 0
    /\ gen_result' = "unchecked"
    /\ pc' = "playing"
    /\ pool' = << >>
    /\ UNCHANGED <<variant, is_paused, threads, game_records, hints_remaining, pattern, attempt, selected_tile, width, height,
                   game_over, reshuffle_prompt_open, shuffle_remaining,
                   solitaire2_slots, solitaire2_last_move,
                   solitaire2_third_slot_unlocked, solitaire2_pending_removal,
                   timers, ret>>

\* main_flet.py generate_board, one iteration of the attempt loop: its
\* body clears self.tiles and shuffles a copy of the tiles, nothing else
GenerateFletShuffle ==
    /\ pc = "generating"
    /\ variant = "extended"
    /\ attempt < max_attempts
    /\ attempt' = attempt + 1
    /\ pool' \in shuffles(pool)
    /\ tiles' = << >>
    /\ UNCHANGED <<variant, is_paused, threads, game_records, hints_remaining, pattern, pc, placements, gen_result, selected_tile,
                   width, height, game_over, reshuffle_prompt_open,
                   shuffle_remaining, solitaire2_slots, solitaire2_last_move,
                   solitaire2_third_slot_unlocked, solitaire2_pending_removal,
                   timers, ret>>

\* main_flet.py generate_board, after the loop: the pattern is built and the
\* last shuffle is placed, once
GenerateFletPlace ==
    /\ pc = "generating"
    /\ variant = "extended"
    /\ attempt = max_attempts
    /\ tiles' = place_flet(pattern_cells(pattern), pool, 0)
    /\ placements' = placements + 1
    /\ pc' = "placed"
    /\ UNCHANGED <<variant, is_paused, threads, game_records, hints_remaining, pattern, pool, attempt, gen_result, selected_tile,
                   width, height, game_over, reshuffle_prompt_open,
                   shuffle_remaining, solitaire2_slots, solitaire2_last_move,
                   solitaire2_third_slot_unlocked, solitaire2_pending_removal,
                   timers, ret>>

\* main_flet.py generate_board, the check after the placement: return, or
\* the printed warning and the end of the function; either way the board
\* goes to the caller, whose update_board() follows
GenerateFletCheck ==
    /\ pc = "placed"
    /\ variant = "extended"
    /\ IF ~is_game_lost(variant, tiles, width, height)
       THEN /\ width' = Len(pattern[1][1])
            /\ height' = Len(pattern[1])
            /\ gen_result' = "playable"
            /\ FirstUpdate(tiles, Len(pattern[1][1]), Len(pattern[1]))
       ELSE /\ gen_result' = "warned"
            /\ FirstUpdate(tiles, width, height)
            /\ UNCHANGED <<width, height>>
    /\ pc' = "playing"
    /\ pool' = << >>
    /\ attempt' = 0
    /\ placements' = 0
    /\ UNCHANGED <<variant, is_paused, threads, game_records, hints_remaining, pattern, tiles, selected_tile, shuffle_remaining,
                   solitaire2_slots, solitaire2_last_move,
                   solitaire2_third_slot_unlocked, solitaire2_pending_removal,
                   timers, ret>>

\* main_flet_rollback_11.py generate_board, one iteration of the attempt
\* loop: shuffle, placement, check; a board with a move is returned and the
\* caller's update_board() follows
GenerateAttempt ==
    /\ pc = "generating"
    /\ variant \in GameModes
    /\ attempt < max_attempts
    /\ \E board_tiles \in shuffles(pool) :
          LET ts == place(pattern_cells(pattern), board_tiles, 0) IN
          /\ tiles' = ts
          /\ IF ~is_game_lost(variant, ts, width, height)
             THEN /\ width' = Len(pattern[1][1])
                  /\ height' = Len(pattern[1])
                  /\ gen_result' = "playable"
                  /\ pc' = "playing"
                  /\ pool' = << >>
                  /\ attempt' = 0
                  /\ placements' = 0
                  /\ FirstUpdate(ts, Len(pattern[1][1]), Len(pattern[1]))
             ELSE /\ attempt' = attempt + 1
                  /\ placements' = placements + 1
                  /\ UNCHANGED <<width, height, gen_result, pc, pool, game_over,
                                 reshuffle_prompt_open>>
    /\ UNCHANGED <<variant, is_paused, threads, game_records, hints_remaining, pattern, selected_tile, shuffle_remaining,
                   solitaire2_slots, solitaire2_last_move,
                   solitaire2_third_slot_unlocked, solitaire2_pending_removal,
                   timers, ret>>

\* main_flet_rollback_11.py generate_board: the loop is exhausted, the
\* warning is printed and the last board is handed back
GenerateExhausted ==
    /\ pc = "generating"
    /\ variant \in GameModes
    /\ attempt = max_attempts
    /\ gen_result' = "warned"
    /\ pc' = "playing"
    /\ pool' = << >>
    /\ attempt' = 0
    /\ placements' = 0
    /\ FirstUpdate(tiles, width, height)
    /\ UNCHANGED <<variant, is_paused, threads, game_records, hints_remaining, pattern, tiles, selected_tile, width, height,
                   shuffle_remaining, solitaire2_slots, solitaire2_last_move,
                   solitaire2_third_slot_unlocked, solitaire2_pending_removal,
                   timers, ret>>

---------------------------------------------------------------------------
(* The game: clicks of the pair variants *)

\* the outcome of Board.click_tile: the tiles and the armed tile
Board_state(ts, sel) == [tiles |-> ts, selected_tile |-> sel]

disarm(ts, sel) ==
    IF sel = None THEN Board_state(ts, None)
    ELSE Board_state([ts EXCEPT ![sel].selected = FALSE], None)

\* mutant: the tile armed before keeps its selected flag
arm_keeping_old(ts, sel, tile) ==
    Board_state([ts EXCEPT ![tile].selected = TRUE], tile)

arm(ts, sel, tile) ==
    IF sel = None THEN Board_state([ts EXCEPT ![tile].selected = TRUE], tile)
    ELSE Board_state([ts EXCEPT ![sel].selected = FALSE, ![tile].selected = TRUE], tile)

\* mutant: of a matched pair only the armed tile is removed
remove_pair_armed_only(ts, sel, tile) ==
    Board_state([ts EXCEPT ![sel].removed = TRUE, ![sel].selected = FALSE], None)

remove_pair(ts, sel, tile) ==
    Board_state([ts EXCEPT ![sel].removed = TRUE, ![sel].selected = FALSE,
                           ![tile].removed = TRUE], None)

\* mutant: two tiles of one kind are removed whether the pair is legal or not
select_or_match_any_pair(ts, sel, tile, legal) ==
    IF sel = None THEN arm(ts, sel, tile)
    ELSE IF sel = tile THEN disarm(ts, sel)
    ELSE IF ts[sel].tile_type = ts[tile].tile_type
         THEN remove_pair(ts, sel, tile)
    ELSE arm(ts, sel, tile)

\* the selection automaton shared by the three click_tile methods, entered
\* with an available, non-removed tile; legal decides a same-kind pair
select_or_match(ts, sel, tile, legal) ==
    IF sel = None THEN arm(ts, sel, tile)
    ELSE IF sel = tile THEN disarm(ts, sel)
    ELSE IF ts[sel].tile_type = ts[tile].tile_type
         THEN IF legal THEN remove_pair(ts, sel, tile) ELSE arm(ts, sel, tile)
    ELSE arm(ts, sel, tile)

\* main.py Board.click_tile
click_tile_main(ts, sel, tile) ==
    IF ts[tile].removed THEN Board_state(ts, sel)
    ELSE IF ~is_tile_available_main(ts, tile) THEN disarm(ts, sel)
    ELSE select_or_match(ts, sel, tile,
            is_tile_available_main(ts, sel) /\ is_tile_available_main(ts, tile))

\* main_flet.py Board.click_tile
click_tile_flet(ts, sel, over, w, h, tile) ==
    IF over THEN Board_state(ts, sel)
    ELSE IF ts[tile].removed THEN Board_state(ts, sel)
    ELSE IF ~is_tile_available_flet(ts, tile) THEN disarm(ts, sel)
    ELSE select_or_match(ts, sel, tile,
            /\ is_tile_available_flet(ts, sel)
            /\ is_tile_available_flet(ts, tile)
            /\ can_connect(ts, w, h, sel, tile, DefaultMaxTurns))

\* main_flet_rollback_11.py Board.click_tile
click_tile_r11(game_mode, ts, sel, over, w, h, tile) ==
    IF over THEN Board_state(ts, sel)
    ELSE IF ts[tile].removed THEN Board_state(ts, sel)
    ELSE IF ~is_tile_available_r11(game_mode, ts, tile) THEN disarm(ts, sel)
    ELSE IF game_mode = "solitaire1"
         THEN select_or_match(ts, sel, tile,
                /\ is_tile_available_r11(game_mode, ts, sel)
                /\ is_tile_available_r11(game_mode, ts, tile)
                /\ can_connect(ts, w, h, sel, tile, DefaultMaxTurns))
    ELSE Board_state(ts, sel)

\* update_board() as far as the game state goes: its closing
\* check_game_state() on the board just written
UpdateBoard(ts, over, prompt) ==
    LET st == check_game_state(variant, ts, width, height, over, prompt) IN
    /\ game_over' = st.game_over
    /\ reshuffle_prompt_open' = st.reshuffle_prompt_open

\* main.py handle_events: a mouse click on a tile
ClickTile ==
    /\ pc = "playing"
    /\ variant = "classic"
    /\ \E tile \in DOMAIN tiles :
          LET b == click_tile_main(tiles, selected_tile, tile) IN
          /\ tiles' = b.tiles
          /\ selected_tile' = b.selected_tile
    /\ UNCHANGED <<variant, is_paused, threads, game_records, hints_remaining, pattern, pool, pc, attempt, placements, gen_result,
                   width, height, game_over, reshuffle_prompt_open,
                   shuffle_remaining, solitaire2_slots, solitaire2_last_move,
                   solitaire2_third_slot_unlocked, solitaire2_pending_removal,
                   timers, ret>>

\* main_flet.py tile_clicked
\* the body of tile_clicked of main_flet.py for one tile
tile_clicked_flet(tile) ==
    LET b == click_tile_flet(tiles, selected_tile, game_over, width,
                             height, tile) IN
    /\ tiles' = b.tiles
    /\ selected_tile' = b.selected_tile
    /\ UpdateBoard(b.tiles, game_over, reshuffle_prompt_open)

TileClickedFlet ==
    /\ pc = "playing"
    /\ variant = "extended"
    /\ \E tile \in DOMAIN tiles : tile_clicked_flet(tile)
    /\ UNCHANGED <<variant, is_paused, threads, game_records, hints_remaining, pattern, pool, pc, attempt, placements, gen_result,
                   width, height, shuffle_remaining, solitaire2_slots,
                   solitaire2_last_move, solitaire2_third_slot_unlocked,
                   solitaire2_pending_removal, timers, ret>>

\* main_flet_rollback_11.py tile_clicked, game_mode solitaire1
TileClickedSolitaire1 ==
    /\ pc = "playing"
    /\ variant = "solitaire1"
    /\ \E tile \in DOMAIN tiles :
          LET b == click_tile_r11(variant, tiles, selected_tile, game_over,
                                  width, height, tile) IN
          /\ tiles' = b.tiles
          /\ selected_tile' = b.selected_tile
          /\ UpdateBoard(b.tiles, game_over, reshuffle_prompt_open)
    /\ UNCHANGED <<variant, is_paused, threads, game_records, hints_remaining, pattern, pool, pc, attempt, placements, gen_result,
                   width, height, shuffle_remaining, solitaire2_slots,
                   solitaire2_last_move, solitaire2_third_slot_unlocked,
                   solitaire2_pending_removal, timers, ret>>

---------------------------------------------------------------------------
(* The game: reshuffle, prompt and admin button *)

remaining_tiles(ts) == {i \in DOMAIN ts : ~ts[i].removed}

\* the kinds zip(remaining, tiles_pool) can assign: pairs of kinds over all
\* remaining tiles but, when their number is odd, the one shuffled last
pool_assignments(rem) ==
    UNION { { g \in [rem \ {keep} -> Kinds] :
                \A k \in Kinds :
                    Cardinality({i \in rem \ {keep} : g[i] = k}) % 2 = 0 }
            : keep \in IF Cardinality(rem) % 2 = 1 THEN rem ELSE {None} }

\* Board.reshuffle_remaining_tiles with more than one remaining tile: the
\* boards it can leave
reshuffle_remaining_tiles(ts) ==
    { [i \in DOMAIN ts |->
          IF i \in DOMAIN g
          THEN [ts[i] EXCEPT !.tile_type = g[i], !.selected = FALSE]
          ELSE ts[i]]
      : g \in pool_assignments(remaining_tiles(ts)) }

\* request_shuffle of main_flet_rollback_11.py, solitaire2: the slot tiles
\* go back to the board
slots_returned(ts, slots) ==
    [i \in DOMAIN ts |->
        IF \E n \in DOMAIN slots : slots[n] = i
        THEN [ts[i] EXCEPT !.removed = FALSE, !.selected = FALSE]
        ELSE ts[i]]

\* the body of request_shuffle, entered with the prompt flag as given
DoRequestShuffle(prompt) ==
    IF shuffle_remaining <= 0 \/ game_over
    THEN /\ reshuffle_prompt_open' = prompt
         /\ UNCHANGED <<tiles, selected_tile, game_over, shuffle_remaining,
                        solitaire2_slots, solitaire2_last_move>>
    ELSE LET ts == IF variant = "solitaire2"
                   THEN slots_returned(tiles, solitaire2_slots) ELSE tiles IN
         /\ shuffle_remaining' = shuffle_remaining - 1
         /\ solitaire2_slots' = IF variant = "solitaire2"
                                THEN <<None, None, None>> ELSE solitaire2_slots
         /\ solitaire2_last_move' = IF variant = "solitaire2"
                                    THEN NoMove ELSE solitaire2_last_move
         /\ IF Cardinality(remaining_tiles(ts)) <= 1
            THEN /\ tiles' = ts
                 /\ selected_tile' = selected_tile
                 /\ UpdateBoard(ts, game_over, prompt)
            ELSE \E ts2 \in reshuffle_remaining_tiles(ts) :
                    /\ tiles' = ts2
                    /\ selected_tile' = None
                    /\ UpdateBoard(ts2, FALSE, prompt)

PairVariantsWithShuffle == {"extended", "solitaire1", "solitaire2"}

\* the shuffle button
RequestShuffle ==
    /\ pc = "playing"
    /\ variant \in PairVariantsWithShuffle
    /\ DoRequestShuffle(reshuffle_prompt_open)
    /\ UNCHANGED <<variant, is_paused, threads, game_records, hints_remaining, pattern, pool, pc, attempt, placements, gen_result,
                   width, height, solitaire2_third_slot_unlocked,
                   solitaire2_pending_removal, timers, ret>>

\* the prompt's reshuffle button: close_reshuffle_dialog, request_shuffle
HandleReshuffle ==
    /\ pc = "playing"
    /\ variant \in PairVariantsWithShuffle
    /\ reshuffle_prompt_open
    /\ DoRequestShuffle(FALSE)
    /\ UNCHANGED <<variant, is_paused, threads, game_records, hints_remaining, pattern, pool, pc, attempt, placements, gen_result,
                   width, height, solitaire2_third_slot_unlocked,
                   solitaire2_pending_removal, timers, ret>>

\* request_hint of main_flet.py and main_flet_rollback_11.py: the armed tile
\* is disarmed, then a pair found costs one hint and update_board() runs
\* the body of request_hint past its early returns
request_hint ==
    /\ ~(hints_remaining <= 0 \/ game_over)
    /\ LET b == disarm(tiles, selected_tile) IN
       /\ tiles' = b.tiles
       /\ selected_tile' = b.selected_tile
       /\ IF find_hint_pair(variant, b.tiles, width, height) = NoPair
          THEN UNCHANGED <<hints_remaining, game_over, reshuffle_prompt_open>>
          ELSE /\ hints_remaining' = hints_remaining - 1
               /\ UpdateBoard(b.tiles, game_over, reshuffle_prompt_open)

RequestHint ==
    /\ pc = "playing"
    /\ variant \in PairVariantsWithShuffle
    /\ request_hint
    /\ UNCHANGED <<variant, is_paused, threads, game_records, pattern, pool, pc, attempt, placements, gen_result,
                   width, height, shuffle_remaining, solitaire2_slots,
                   solitaire2_last_move, solitaire2_third_slot_unlocked,
                   solitaire2_pending_removal, timers, ret>>

\* the prompt's end button: close_reshuffle_dialog, finalize_game
HandleEndGame ==
    /\ pc = "playing"
    /\ variant \in PairVariantsWithShuffle
    /\ reshuffle_prompt_open
    /\ reshuffle_prompt_open' = FALSE
    /\ game_over' = TRUE
    /\ UNCHANGED <<variant, is_paused, threads, game_records, hints_remaining, pattern, pool, pc, attempt, placements, gen_result,
                   tiles, selected_tile, width, height, shuffle_remaining,
                   solitaire2_slots, solitaire2_last_move,
                   solitaire2_third_slot_unlocked, solitaire2_pending_removal,
                   timers, ret>>

\* available_tiles[:10] of admin_remove_10_tiles
first_available(v, ts) ==
    LET available == get_available_tiles(v, ts) IN
    {available[n] : n \in 1..(IF Len(available) < admin_remove_limit
                              THEN Len(available) ELSE admin_remove_limit)}

\* the admin button
\* the body of admin_remove_10_tiles past its early returns
admin_remove_10_tiles ==
    /\ ~game_over
    /\ first_available(variant, tiles) # {}
    /\ LET ts == [i \in DOMAIN tiles |->
                    IF i \in first_available(variant, tiles)
                    THEN [tiles[i] EXCEPT !.removed = TRUE] ELSE tiles[i]] IN
       /\ tiles' = ts
       /\ UpdateBoard(ts, game_over, reshuffle_prompt_open)

AdminRemove10Tiles ==
    /\ pc = "playing"
    /\ variant \in PairVariantsWithShuffle
    /\ admin_remove_10_tiles
    /\ UNCHANGED <<variant, is_paused, threads, game_records, hints_remaining, pattern, pool, pc, attempt, placements, gen_result,
                   selected_tile, width, height, shuffle_remaining,
                   solitaire2_slots, solitaire2_last_move,
                   solitaire2_third_slot_unlocked, solitaire2_pending_removal,
                   timers, ret>>

---------------------------------------------------------------------------
(* The game: the slot variant *)

slot_kind(ts, slots, n) == ts[slots[n]].tile_type

\* mutant: slot 1 is looked at before slot 0
direct_match_slot_second_first(ts, slots, tile) ==
    IF slots[1] = None \/ slots[2] = None THEN NoSlot
    ELSE IF slot_kind(ts, slots, 2) = ts[tile].tile_type THEN 1
    ELSE IF slot_kind(ts, slots, 1) = ts[tile].tile_type THEN 0
    ELSE NoSlot

\* the slot index (0, 1) of the first of the two slots whose tile has the
\* kind of the clicked tile, when both are occupied
direct_match_slot(ts, slots, tile) ==
    IF slots[1] = None \/ slots[2] = None THEN NoSlot
    ELSE IF slot_kind(ts, slots, 1) = ts[tile].tile_type THEN 0
    ELSE IF slot_kind(ts, slots, 2) = ts[tile].tile_type THEN 1
    ELSE NoSlot

\* mutant: the third slot is used whether unlocked or not
free_slot_ignoring_lock(slots, third_unlocked) ==
    IF slots[1] = None THEN 0
    ELSE IF slots[2] = None THEN 1
    ELSE IF slots[3] = None THEN 2
    ELSE NoSlot

\* the slot a placed tile goes to
free_slot(slots, third_unlocked) ==
    IF slots[1] = None THEN 0
    ELSE IF slots[2] = None THEN 1
    ELSE IF third_unlocked /\ slots[3] = None THEN 2
    ELSE NoSlot

slots_match(ts, slots) ==
    /\ slots[1] # None
    /\ slots[2] # None
    /\ slot_kind(ts, slots, 1) = slot_kind(ts, slots, 2)

\* mutant: only a removed tile is turned away
click_rejected_removed_only(v, ts, tile) == ts[tile].removed

\* tile_clicked, game_mode solitaire2: `not is_available or tile.removed`
click_rejected(v, ts, tile) ==
    ~is_tile_available(v, ts, tile) \/ ts[tile].removed

\* tile_clicked, game_mode solitaire2, returns without a move: the tile is
\* turned away, or it matches no slot tile and no slot is free
tile_clicked_ignored(tile) ==
    /\ \/ click_rejected(variant, tiles, tile)
       \/ /\ direct_match_slot(tiles, solitaire2_slots, tile) = NoSlot
          /\ free_slot(solitaire2_slots, solitaire2_third_slot_unlocked) = NoSlot
    /\ UNCHANGED <<tiles, game_over, reshuffle_prompt_open, solitaire2_slots,
                   solitaire2_last_move, solitaire2_pending_removal, timers>>

\* tile_clicked, game_mode solitaire2, on an available tile that matches a
\* slot tile while slots 0 and 1 are occupied
tile_clicked_direct_match(tile) ==
    LET slot_index == direct_match_slot(tiles, solitaire2_slots, tile) IN
    /\ ~click_rejected(variant, tiles, tile)
    /\ slot_index # NoSlot
    /\ LET ts == [tiles EXCEPT
                    ![tile].removed = TRUE,
                    ![solitaire2_slots[slot_index + 1]].removed = TRUE] IN
       /\ tiles' = ts
       /\ UpdateBoard(ts, game_over, reshuffle_prompt_open)
    /\ solitaire2_slots' = [solitaire2_slots EXCEPT ![slot_index + 1] = None]
    /\ solitaire2_last_move' = NoMove
    /\ solitaire2_pending_removal' = FALSE
    /\ UNCHANGED timers

\* tile_clicked, game_mode solitaire2, on an available tile that goes to a
\* free slot; equal kinds in slots 0 and 1 start the 0.3 s timer
\* mutant: the slotted tile stays on the board
taken_off_board_not(ts, tile) == ts

\* tile.removed = True for the tile that goes into a slot
taken_off_board(ts, tile) == [ts EXCEPT ![tile].removed = TRUE]

tile_clicked_place(tile) ==
    LET slot_index == free_slot(solitaire2_slots, solitaire2_third_slot_unlocked)
        ts == taken_off_board(tiles, tile)
        slots == [solitaire2_slots EXCEPT ![slot_index + 1] = tile]
    IN
    /\ ~click_rejected(variant, tiles, tile)
    /\ direct_match_slot(tiles, solitaire2_slots, tile) = NoSlot
    /\ slot_index # NoSlot
    /\ tiles' = ts
    /\ solitaire2_slots' = slots
    /\ solitaire2_last_move' =
          [tile |-> tile, x |-> tiles[tile].x, y |-> tiles[tile].y,
           z |-> tiles[tile].z, slot_index |-> slot_index]
    /\ UpdateBoard(ts, game_over, reshuffle_prompt_open)
    /\ IF slots_match(ts, slots)
       THEN /\ timers < MaxTimers
            /\ solitaire2_pending_removal' = TRUE
            /\ timers' = timers + 1
       ELSE UNCHANGED <<solitaire2_pending_removal, timers>>

\* start_button.visible while a game is on the page: start_new_game hides
\* the button, finalize_game shows it again after writing board.game_over
start_button_visible(over) == over

TileClickedIgnored ==
    /\ pc = "playing"
    /\ variant = "solitaire2"
    /\ ~start_button_visible(game_over)
    /\ \E tile \in DOMAIN tiles : tile_clicked_ignored(tile)
    /\ UNCHANGED <<variant, is_paused, threads, game_records, hints_remaining, pattern, pool, pc, attempt,
                   placements, gen_result, selected_tile, width, height,
                   shuffle_remaining, solitaire2_third_slot_unlocked, ret>>

TileClickedDirectMatch ==
    /\ pc = "playing"
    /\ variant = "solitaire2"
    /\ ~start_button_visible(game_over)
    /\ \E tile \in DOMAIN tiles : tile_clicked_direct_match(tile)
    /\ UNCHANGED <<variant, is_paused, threads, game_records, hints_remaining, pattern, pool, pc, attempt,
                   placements, gen_result, selected_tile, width, height,
                   shuffle_remaining, solitaire2_third_slot_unlocked, ret>>

TileClickedPlace ==
    /\ pc = "playing"
    /\ variant = "solitaire2"
    /\ ~start_button_visible(game_over)
    /\ \E tile \in DOMAIN tiles : tile_clicked_place(tile)
    /\ UNCHANGED <<variant, is_paused, threads, game_records, hints_remaining, pattern, pool, pc, attempt,
                   placements, gen_result, selected_tile, width, height,
                   shuffle_remaining, solitaire2_third_slot_unlocked, ret>>

\* mutant: the removal leaves the undo record in place
remove_matching_tiles_keeping_undo(ts, slots, last_move) ==
    [tiles |-> [ts EXCEPT ![slots[1]].removed = TRUE,
                          ![slots[2]].removed = TRUE],
     slots |-> [slots EXCEPT ![1] = None, ![2] = None],
     last_move |-> last_move]

\* what remove_matching_tiles writes when it removes the pair of slots 0, 1
remove_matching_tiles(ts, slots, last_move) ==
    [tiles |-> [ts EXCEPT ![slots[1]].removed = TRUE,
                          ![slots[2]].removed = TRUE],
     slots |-> [slots EXCEPT ![1] = None, ![2] = None],
     last_move |-> NoMove]

\* the timer callback remove_matching_tiles, with the update_ui task it
\* schedules
RemoveMatchingTiles ==
    /\ pc = "playing"
    /\ variant = "solitaire2"
    /\ timers > 0
    /\ timers' = timers - 1
    /\ solitaire2_pending_removal' = FALSE
    /\ IF solitaire2_pending_removal /\ slots_match(tiles, solitaire2_slots)
       THEN LET r == remove_matching_tiles(tiles, solitaire2_slots,
                                           solitaire2_last_move) IN
            /\ tiles' = r.tiles
            /\ solitaire2_slots' = r.slots
            /\ solitaire2_last_move' = r.last_move
            /\ UpdateBoard(r.tiles, game_over, reshuffle_prompt_open)
       ELSE UNCHANGED <<tiles, solitaire2_slots, solitaire2_last_move,
                        game_over, reshuffle_prompt_open>>
    /\ UNCHANGED <<variant, is_paused, threads, game_records, hints_remaining, pattern, pool, pc, attempt, placements, gen_result,
                   selected_tile, width, height, shuffle_remaining,
                   solitaire2_third_slot_unlocked, ret>>

\* mutant: the recorded tile is never found in its slot
slot_differs_always(ts, slots, slot_index, tile) == TRUE

\* solitaire2_slots[slot_index] != tile, by Tile.__eq__
slot_differs(ts, slots, slot_index, tile) ==
    IF slots[slot_index + 1] = None THEN TRUE
    ELSE ~tile_eq(ts, slots[slot_index + 1], tile)

\* the recorded tile is put back: its cell from the record, removed = False
restore_tile(ts, move) ==
    [ts EXCEPT ![move.tile].x = move.x,
               ![move.tile].y = move.y,
               ![move.tile].z = move.z,
               ![move.tile].removed = FALSE]

\* undo_last_move_solitaire2: no record, a record whose slot holds another
\* tile, or the restore
undo_last_move_solitaire2 ==
    IF solitaire2_last_move = NoMove
    THEN UNCHANGED <<tiles, solitaire2_slots, solitaire2_last_move, game_over,
                     reshuffle_prompt_open>>
    ELSE /\ solitaire2_last_move' = NoMove
         /\ LET tile == solitaire2_last_move.tile
                slot_index == solitaire2_last_move.slot_index IN
            IF slot_differs(tiles, solitaire2_slots, slot_index, tile)
            THEN UNCHANGED <<tiles, solitaire2_slots, game_over,
                             reshuffle_prompt_open>>
            ELSE LET ts == restore_tile(tiles, solitaire2_last_move) IN
                 /\ tiles' = ts
                 /\ solitaire2_slots' =
                       [solitaire2_slots EXCEPT ![slot_index + 1] = None]
                 /\ UpdateBoard(ts, game_over, reshuffle_prompt_open)

\* the undo button
UndoLastMove ==
    /\ pc = "playing"
    /\ variant = "solitaire2"
    /\ undo_last_move_solitaire2
    /\ UNCHANGED <<variant, is_paused, threads, game_records, hints_remaining, pattern, pool, pc, attempt, placements, gen_result,
                   selected_tile, width, height, shuffle_remaining,
                   solitaire2_third_slot_unlocked, solitaire2_pending_removal,
                   timers, ret>>

\* unlock_third_slot, for a signed-in player with two coins
UnlockThirdSlot ==
    /\ pc = "playing"
    /\ variant = "solitaire2"
    /\ ~solitaire2_third_slot_unlocked
    /\ solitaire2_third_slot_unlocked' = TRUE
    /\ UpdateBoard(tiles, game_over, reshuffle_prompt_open)
    /\ UNCHANGED <<variant, is_paused, threads, game_records, hints_remaining, pattern, pool, pc, attempt, placements, gen_result,
                   tiles, selected_tile, width, height, shuffle_remaining,
                   solitaire2_slots, solitaire2_last_move,
                   solitaire2_pending_removal, timers, ret>>

\* show_modes_page in a solitaire2 game of a signed-in player (the only
\* games with a session): a running game is ended by the confirmation in the
\* end-game dialog, a finished one is left directly; the mode buttons show
ShowModesPage ==
    /\ pc = "playing"
    /\ variant = "solitaire2"
    /\ game_over' = TRUE
    /\ pc' = "modes"
    /\ UNCHANGED <<variant, is_paused, threads, game_records, hints_remaining, pattern, pool, attempt, placements,
                   gen_result, tiles, selected_tile, width, height,
                   reshuffle_prompt_open, shuffle_remaining, solitaire2_slots,
                   solitaire2_last_move, solitaire2_third_slot_unlocked,
                   solitaire2_pending_removal, timers, ret>>

---------------------------------------------------------------------------

Next ==
    \/ GenerateMain
    \/ GenerateFletShuffle
    \/ GenerateFletPlace
    \/ GenerateFletCheck
    \/ GenerateAttempt
    \/ GenerateExhausted
    \/ ClickTile
    \/ TileClickedFlet
    \/ TileClickedSolitaire1
    \/ TileClickedIgnored
    \/ TileClickedDirectMatch
    \/ TileClickedPlace
    \/ RemoveMatchingTiles
    \/ UndoLastMove
    \/ UnlockThirdSlot
    \/ RequestHint
    \/ RequestShuffle
    \/ HandleReshuffle
    \/ HandleEndGame
    \/ AdminRemove10Tiles
    \/ ShowModesPage

Spec == Init /\ [][Next]_vars

---------------------------------------------------------------------------
(* Properties of the game *)

\* generate_board hands its board to the caller in this step
GenerationReturns == pc # "playing" /\ pc' = "playing"

\* a tile still in the game: on the board or held in a slot
live(i) ==
    \/ ~tiles[i].removed
    \/ \E n \in DOMAIN solitaire2_slots : solitaire2_slots[n] = i

live_of_kind(k) == {i \in DOMAIN tiles : live(i) /\ tiles[i].tile_type = k}

\* C1: whenever generate_board of main_flet.py or of
\* main_flet_rollback_11.py hands a board back to its caller,
\* has_possible_moves() is true on that board; an unplayable board is never
\* handed back as a normal result.
C1_ReturnedBoardHasMove ==
    [][(GenerationReturns /\ variant # "classic")
          => has_possible_moves(variant, tiles', width', height')]_vars

\* C2: a placement found to have no legal move is discarded and followed by
\* a new shuffle and placement; the generator stops retrying only after
\* max_attempts placements, so a board found lost is handed back only when
\* max_attempts placements have been made.
C2_LostPlacementIsRetried ==
    [][(GenerationReturns /\ gen_result' = "warned")
          => placements = max_attempts]_vars

\* C3: once the board is generated, and after every click, reshuffle, slot
\* placement and undo, the number of live tiles of each kind is even, tiles
\* held in slots counted as live.
C3_EvenLiveTilesPerKind ==
    pc = "playing" => \A k \in Kinds : Cardinality(live_of_kind(k)) % 2 = 0

\* C4: in every reachable state no two non-removed tiles have the same
\* (x, y, z) position.
C4_NoSharedPosition ==
    \A i \in DOMAIN tiles : \A j \in DOMAIN tiles :
        (i # j /\ ~tiles[i].removed /\ ~tiles[j].removed)
            => <<tiles[i].x, tiles[i].y, tiles[i].z>>
                 # <<tiles[j].x, tiles[j].y, tiles[j].z>>

\* a slot game after a reshuffle, with a tile in slot 0, no undo record left
\* and at least two tiles on the board
C4_Witness ==
    /\ pc = "playing"
    /\ variant = "solitaire2"
    /\ shuffle_remaining < BaseShuffles
    /\ solitaire2_slots[1] # None
    /\ solitaire2_last_move = NoMove
    /\ Cardinality(remaining_tiles(tiles)) >= 2

---------------------------------------------------------------------------
(* Specification of the Board methods alone: click_tile, find_hint_pair,  *)
(* has_possible_moves / is_game_lost, each called on every board of five  *)
(* tiles the classic and the extended program can hold.                   *)

BoardVariants == {"classic", "extended"}

\* classic: a row of three over a row of two, so that a tile can be shut in
\* from both sides; extended: a 2 x 2 block with one tile on top, so that a
\* tile can be covered and two tiles can fail to connect
BoardCells(v) ==
    IF v = "classic"
    THEN << <<0, 0, 0>>, <<1, 0, 0>>, <<2, 0, 0>>, <<0, 1, 0>>, <<1, 1, 0>> >>
    ELSE << <<0, 0, 0>>, <<1, 0, 0>>, <<0, 1, 0>>, <<1, 1, 0>>, <<0, 0, 1>> >>

\* the tiles a game can have armed: an available tile, or (extended) a tile
\* the admin button has removed while it was armed
armable(v, ts) ==
    {i \in DOMAIN ts : \/ is_tile_available(v, ts, i)
                       \/ v # "classic" /\ ts[i].removed}

live_count(ts) == Cardinality(remaining_tiles(ts))

InitBoard ==
    /\ IdleSession
    /\ variant \in BoardVariants
    /\ \E kind \in [1..Len(BoardCells(variant)) -> Kinds],
          gone \in SUBSET (1..Len(BoardCells(variant))) :
          LET ts == [i \in 1..Len(BoardCells(variant)) |->
                        [Tile(kind[i], BoardCells(variant)[i][1],
                              BoardCells(variant)[i][2], BoardCells(variant)[i][3])
                         EXCEPT !.removed = i \in gone]]
          IN \E sel \in {None} \cup armable(variant, ts) :
                /\ tiles = IF sel = None THEN ts
                           ELSE [ts EXCEPT ![sel].selected = TRUE]
                /\ selected_tile = sel
    /\ width = IF variant = "classic" THEN 3 ELSE 2
    /\ height = 2
    /\ game_over \in IF variant = "classic"
                        \/ has_possible_moves(variant, tiles, width, height)
                     THEN {FALSE} ELSE BOOLEAN
    /\ pattern = << >>
    /\ pool = << >>
    /\ pc = "playing"
    /\ attempt = 0
    /\ placements = 0
    /\ gen_result = "none"
    /\ reshuffle_prompt_open = FALSE
    /\ shuffle_remaining = 0
    /\ hints_remaining = 0
    /\ solitaire2_slots = <<None, None, None>>
    /\ solitaire2_last_move = NoMove
    /\ solitaire2_third_slot_unlocked = FALSE
    /\ solitaire2_pending_removal = FALSE
    /\ timers = 0
    /\ ret = NoCall

\* Board.click_tile of the program
click_tile(v, ts, sel, over, w, h, tile) ==
    CASE v = "classic"  -> click_tile_main(ts, sel, tile)
      [] v = "extended" -> click_tile_flet(ts, sel, over, w, h, tile)
      [] OTHER          -> click_tile_r11(v, ts, sel, over, w, h, tile)

\* one call of Board.click_tile; the call records the clicked tile, the tile
\* armed before, the number of live tiles before and whether the clicked
\* tile was available
ClickTileCall ==
    \E tile \in DOMAIN tiles :
        LET b == click_tile(variant, tiles, selected_tile, game_over, width,
                            height, tile) IN
        /\ ret = NoCall
        /\ tiles' = b.tiles
        /\ selected_tile' = b.selected_tile
        /\ ret' = [op |-> "click_tile", a |-> tile, b |-> selected_tile,
                   k |-> live_count(tiles),
                   val |-> is_tile_available(variant, tiles, tile)]
        /\ UNCHANGED << variant, is_paused, threads, game_records, hints_remaining, pattern, pool, pc, attempt, placements,
                        gen_result, width, height, game_over,
                        reshuffle_prompt_open, shuffle_remaining,
                        solitaire2_slots, solitaire2_last_move,
                        solitaire2_third_slot_unlocked,
                        solitaire2_pending_removal, timers >>

\* mutant: the search disarms the armed tile, as request_hint does before it
find_hint_pair_board_disarming(ts, sel) == disarm(ts, sel)

\* the board find_hint_pair leaves: the method assigns to no field
find_hint_pair_board(ts, sel) == Board_state(ts, sel)

\* Board.find_hint_pair of main_flet.py, called once and then once more with
\* nothing in between; the call records the pair it returned
FindHintPairCall ==
    /\ variant = "extended"
    /\ ret = NoCall \/ (ret.op = "find_hint_pair" /\ ret.k = 1)
    /\ LET pair == find_hint_pair(variant, tiles, width, height)
           b == find_hint_pair_board(tiles, selected_tile) IN
        /\ tiles' = b.tiles
        /\ selected_tile' = b.selected_tile
        /\ ret' = [op |-> "find_hint_pair",
                   a |-> IF pair = NoPair THEN None ELSE pair[1],
                   b |-> IF pair = NoPair THEN None ELSE pair[2],
                   k |-> IF ret = NoCall THEN 1 ELSE 2,
                   val |-> pair # NoPair]
        /\ UNCHANGED << variant, is_paused, threads, game_records, hints_remaining, pattern, pool, pc, attempt,
                        placements, gen_result, width, height, game_over,
                        reshuffle_prompt_open, shuffle_remaining,
                        solitaire2_slots, solitaire2_last_move,
                        solitaire2_third_slot_unlocked,
                        solitaire2_pending_removal, timers >>

\* Board.has_possible_moves of main_flet.py
HasPossibleMovesCall ==
    /\ variant = "extended"
    /\ ret = NoCall
    /\ ret' = [op |-> "has_possible_moves", a |-> None, b |-> None, k |-> 0,
               val |-> has_possible_moves(variant, tiles, width, height)]
    /\ UNCHANGED << variant, is_paused, threads, game_records, hints_remaining, pattern, pool, pc, attempt,
                    placements, gen_result, tiles, selected_tile, width, height,
                    game_over, reshuffle_prompt_open, shuffle_remaining,
                    solitaire2_slots, solitaire2_last_move,
                    solitaire2_third_slot_unlocked,
                    solitaire2_pending_removal, timers >>

\* Board.is_game_lost of main.py and main_flet.py
IsGameLostCall ==
    /\ ret = NoCall
    /\ ret' = [op |-> "is_game_lost", a |-> None, b |-> None, k |-> 0,
               val |-> is_game_lost(variant, tiles, width, height)]
    /\ UNCHANGED << variant, is_paused, threads, game_records, hints_remaining, pattern, pool, pc, attempt,
                    placements, gen_result, tiles, selected_tile, width, height,
                    game_over, reshuffle_prompt_open, shuffle_remaining,
                    solitaire2_slots, solitaire2_last_move,
                    solitaire2_third_slot_unlocked,
                    solitaire2_pending_removal, timers >>

NextBoard ==
    \/ ClickTileCall
    \/ FindHintPairCall
    \/ HasPossibleMovesCall
    \/ IsGameLostCall

SpecBoard == InitBoard /\ [][NextBoard]_vars

\* this step is a call of click_tile on a board whose game is not over
ClickStep == ret = NoCall /\ ret'.op = "click_tile" /\ ~game_over

\* the removed flags and the cells of all tiles are as before
lifecycle_unchanged ==
    /\ DOMAIN tiles' = DOMAIN tiles
    /\ \A i \in DOMAIN tiles :
          /\ tiles'[i].removed = tiles[i].removed
          /\ tiles'[i].tile_type = tiles[i].tile_type
          /\ <<tiles'[i].x, tiles'[i].y, tiles'[i].z>>
                = <<tiles[i].x, tiles[i].y, tiles[i].z>>

\* the pair (armed tile, clicked tile) is a legal match of the variant
legal_match(v, ts, sel, tile, w, h) ==
    /\ sel # None /\ sel # tile
    /\ ts[sel].tile_type = ts[tile].tile_type
    /\ is_tile_available(v, ts, sel)
    /\ is_tile_available(v, ts, tile)
    /\ v # "classic" => can_connect(ts, w, h, sel, tile, DefaultMaxTurns)

\* C12: a click on a removed tile or on a tile that is not available disarms
\* the armed tile if there is one (selected_tile None, its flag false) and
\* otherwise changes nothing; no tile is removed, the clicked tile is not
\* armed.
C12_RejectedClickDisarms ==
    [][(ClickStep /\ (tiles[ret'.a].removed
                        \/ ~is_tile_available(variant, tiles, ret'.a)))
        => /\ selected_tile' = None
           /\ selected_tile # None => ~tiles'[selected_tile].selected
           /\ selected_tile = None => tiles' = tiles
           /\ ~tiles'[ret'.a].selected
           /\ lifecycle_unchanged]_vars

\* C13: a click that completes a legal match removes exactly the armed and
\* the clicked tile, leaves kind, cell and removed flag of every other tile
\* as they were, lowers the number of live tiles by 2 and leaves no tile
\* armed.
C13_LegalMatchRemovesPair ==
    [][(ClickStep /\ legal_match(variant, tiles, selected_tile, ret'.a,
                                 width, height))
        => /\ tiles'[ret'.a].removed /\ tiles'[selected_tile].removed
           /\ \A i \in DOMAIN tiles :
                 (i # ret'.a /\ i # selected_tile) => tiles'[i] = tiles[i]
           /\ \A i \in DOMAIN tiles :
                 /\ tiles'[i].tile_type = tiles[i].tile_type
                 /\ <<tiles'[i].x, tiles'[i].y, tiles'[i].z>>
                       = <<tiles[i].x, tiles[i].y, tiles[i].z>>
           /\ live_count(tiles') = live_count(tiles) - 2
           /\ selected_tile' = None
           /\ \A i \in DOMAIN tiles : ~tiles'[i].selected]_vars

\* a call that removed the tile armed before together with the clicked one
C13_Witness ==
    /\ ret.op = "click_tile" /\ ret.b # None /\ ret.a # ret.b
    /\ tiles[ret.a].removed /\ tiles[ret.b].removed
    /\ live_count(tiles) = ret.k - 2
    /\ selected_tile = None

\* C14: a click on an available tile that completes no match arms the
\* clicked tile from Idle, returns to Idle when the clicked tile is the
\* armed tile itself, and otherwise (kinds differ, or the availability or
\* connectivity check fails) disarms the old tile and arms the clicked one;
\* no tile is removed.
C14_NonMatchingClickArms ==
    [][(ClickStep /\ ~tiles[ret'.a].removed
          /\ is_tile_available(variant, tiles, ret'.a)
          /\ ~legal_match(variant, tiles, selected_tile, ret'.a, width, height))
        => /\ lifecycle_unchanged
           /\ IF selected_tile = ret'.a
              THEN /\ selected_tile' = None
                   /\ ~tiles'[ret'.a].selected
              ELSE /\ selected_tile' = ret'.a
                   /\ tiles'[ret'.a].selected
                   /\ selected_tile # None => ~tiles'[selected_tile].selected]_vars

\* a call that re-armed: a tile of the armed tile's kind was clicked, the
\* pair was no legal match, the clicked tile is armed and nothing is removed
C14_Witness ==
    /\ ret.op = "click_tile" /\ ret.val /\ ret.b # None /\ ret.a # ret.b
    /\ tile_eq(tiles, ret.a, ret.b)
    /\ ~tiles[ret.a].removed
    /\ selected_tile = ret.a /\ tiles[ret.a].selected /\ ~tiles[ret.b].selected
    /\ live_count(tiles) = ret.k

---------------------------------------------------------------------------
(* Properties of the game: the lifecycle of a tile *)

\* this step removes the armed tile and one other tile, a legal match of it
matching_click_step ==
    \E tile \in DOMAIN tiles :
        /\ legal_match(variant, tiles, selected_tile, tile, width, height)
        /\ tiles' = remove_pair(tiles, selected_tile, tile).tiles
        /\ selected_tile' = None

\* C15: in the classic and the extended variant the removed flag of a tile
\* changes only in a step that is a successful matching click, and only from
\* false to true; no failing click, hint request or reshuffle removes a
\* tile or brings one back.
C15_RemovedOnlyByMatch ==
    [][(pc = "playing" /\ variant \in BoardVariants)
        => \A i \in DOMAIN tiles :
              tiles'[i].removed # tiles[i].removed
                 => ~tiles[i].removed /\ matching_click_step]_vars

---------------------------------------------------------------------------
(* Properties of the board: the hint search *)

hint_pair(ts, w, h, a, b) ==
    /\ a < b
    /\ is_tile_available("extended", ts, a)
    /\ is_tile_available("extended", ts, b)
    /\ ts[a].tile_type = ts[b].tile_type
    /\ can_connect(ts, w, h, a, b, DefaultMaxTurns)

\* C17: find_hint_pair returns the first pair, in board insertion order of
\* the available tiles, of two distinct available tiles of equal kind that
\* satisfy the match rule, and returns None exactly when
\* has_possible_moves() is false.
C17_FirstPairInBoardOrder ==
    ret.op = "find_hint_pair"
       => /\ ret.val <=> has_possible_moves(variant, tiles, width, height)
          /\ ret.val
                => /\ hint_pair(tiles, width, height, ret.a, ret.b)
                   /\ \A a, b \in DOMAIN tiles :
                         (a < ret.a \/ (a = ret.a /\ b < ret.b))
                            => ~hint_pair(tiles, width, height, a, b)
          /\ ~ret.val
                => \A a, b \in DOMAIN tiles :
                      ~hint_pair(tiles, width, height, a, b)

\* the pair returned is not the first two available tiles of the board: an
\* earlier candidate pair was passed over
C17_Witness ==
    /\ ret.op = "find_hint_pair" /\ ret.val
    /\ \E a, b \in DOMAIN tiles :
          /\ a < b /\ (a < ret.a \/ (a = ret.a /\ b < ret.b))
          /\ is_tile_available(variant, tiles, a)
          /\ is_tile_available(variant, tiles, b)

---------------------------------------------------------------------------
(* Properties of the game: the reshuffle *)

\* this step is a run of request_shuffle that got past its guards, the only
\* caller of reshuffle_remaining_tiles
ShuffleStep == shuffle_remaining' = shuffle_remaining - 1

\* the tiles request_shuffle takes out of the slots before the reshuffle
slot_tiles == {solitaire2_slots[n] : n \in DOMAIN solitaire2_slots} \ {None}

\* C18: the reshuffle changes only the kinds of non-removed tiles (every
\* tile keeps its cell and its removed flag, slot tiles being back on the
\* board first), and afterwards, for any number of remaining tiles, no tile
\* is selected, selected_tile is None, game_over is false and the slots and
\* the undo record are empty.
C18_ReshuffleKeepsBoard ==
    [][ShuffleStep
        => /\ DOMAIN tiles' = DOMAIN tiles
           /\ \A i \in DOMAIN tiles :
                 /\ <<tiles'[i].x, tiles'[i].y, tiles'[i].z>>
                       = <<tiles[i].x, tiles[i].y, tiles[i].z>>
                 /\ tiles'[i].removed = (tiles[i].removed /\ i \notin slot_tiles)
                 /\ tiles'[i].removed => tiles'[i].tile_type = tiles[i].tile_type
                 /\ ~tiles'[i].selected
           /\ selected_tile' = None
           /\ ~game_over'
           /\ solitaire2_slots' = <<None, None, None>>
           /\ solitaire2_last_move' = NoMove]_vars

---------------------------------------------------------------------------
(* Properties of the board: the end-of-moves test *)

\* two distinct available tiles of equal kind that, outside the classic
\* variant, can be connected
move_exists(v, ts, w, h) ==
    \E a, b \in DOMAIN ts :
        /\ a # b
        /\ is_tile_available(v, ts, a)
        /\ is_tile_available(v, ts, b)
        /\ ts[a].tile_type = ts[b].tile_type
        /\ v # "classic" => can_connect(ts, w, h, a, b, DefaultMaxTurns)

\* C19: has_possible_moves() is true exactly when two distinct available
\* tiles of equal kind satisfy can_connect, and is_game_lost() is its
\* negation; in main.py is_game_lost() is true exactly when no two distinct
\* available tiles have equal kind.
C19_LostIffNoMove ==
    /\ ret.op = "has_possible_moves"
          => (ret.val <=> move_exists(variant, tiles, width, height))
    /\ ret.op = "is_game_lost"
          => (ret.val <=> ~move_exists(variant, tiles, width, height))

\* is_game_lost() answered true on an extended board that has two
\* available tiles of equal kind: the pair cannot be connected
C19_Witness ==
    /\ ret.op = "is_game_lost" /\ ret.val /\ variant = "extended"
    /\ \E a, b \in DOMAIN tiles :
          /\ a # b
          /\ is_tile_available(variant, tiles, a)
          /\ is_tile_available(variant, tiles, b)
          /\ tiles[a].tile_type = tiles[b].tile_type

---------------------------------------------------------------------------
(* The slot variant: one click on a board in play *)

\* kinds on the boards of the slot variant: a third kind lets a tile match
\* neither of two different slot tiles
SlotKindCount == 3

\* four cells, one of them on the upper layer
SlotCells == << <<0, 0, 0>>, <<1, 0, 0>>, <<0, 1, 0>>, <<0, 0, 1>> >>

\* the kinds of the tiles up to renaming of kinds: a tile has a kind seen
\* before it or the next new one
canonical_kinds ==
    { kind \in [1..Len(SlotCells) -> 1..SlotKindCount] :
        \A i \in 1..Len(SlotCells) :
            \A k \in 1..(kind[i] - 1) : \E j \in 1..(i - 1) : kind[j] = k }

\* a tile of the board of the game before: start_solitaire2_mode assigns
\* solitaire2_last_move as a local, the record of the old game stays
old_tile == Len(SlotCells) + 1

\* slot contents: every slot empty or holding a tile, no tile twice
slot_fillings ==
    { f \in [1..3 -> {None} \cup (1..Len(SlotCells))] :
        \A m, n \in 1..3 : (m # n /\ f[m] # None) => f[m] # f[n] }

\* a game of the slot variant between two events: tiles in slots are off
\* the board, an equal pair in slots 0 and 1 awaits its timer, the third
\* slot is used only when unlocked, the undo record is empty, that of a
\* tile in its slot or, on a fresh board, that of the game before
InitSlots ==
    /\ IdleSession
    /\ variant = "solitaire2"
    /\ \E kind \in canonical_kinds, gone \in SUBSET (1..Len(SlotCells)) :
          tiles = [i \in 1..Len(SlotCells) |->
                     [Tile(kind[i], SlotCells[i][1], SlotCells[i][2],
                           SlotCells[i][3])
                      EXCEPT !.removed = i \in gone]]
    /\ solitaire2_slots \in slot_fillings
    /\ \A n \in 1..3 :
          solitaire2_slots[n] # None => tiles[solitaire2_slots[n]].removed
    /\ solitaire2_third_slot_unlocked \in BOOLEAN
    /\ solitaire2_slots[3] # None => solitaire2_third_slot_unlocked
    /\ solitaire2_last_move \in
          {NoMove} \cup
          { [tile |-> solitaire2_slots[n], x |-> tiles[solitaire2_slots[n]].x,
             y |-> tiles[solitaire2_slots[n]].y,
             z |-> tiles[solitaire2_slots[n]].z, slot_index |-> n - 1]
            : n \in {m \in 1..3 : solitaire2_slots[m] # None} } \cup
          { [tile |-> old_tile, x |-> 0, y |-> 0, z |-> 0, slot_index |-> n - 1]
            : n \in {m \in 1..3 : solitaire2_slots = <<None, None, None>>
                                     /\ \A i \in DOMAIN tiles : ~tiles[i].removed} }
    /\ selected_tile = None
    /\ width = 2
    /\ height = 2
    /\ game_over = FALSE
    /\ reshuffle_prompt_open = FALSE
    /\ pattern = << >>
    /\ pool = << >>
    /\ pc = "playing"
    /\ attempt = 0
    /\ placements = 0
    /\ gen_result = "none"
    /\ shuffle_remaining = 0
    /\ hints_remaining = 0
    /\ solitaire2_pending_removal = slots_match(tiles, solitaire2_slots)
    /\ timers = IF slots_match(tiles, solitaire2_slots) THEN 1 ELSE 0
    /\ ret = [NoCall EXCEPT !.b = [tiles |-> tiles, slots |-> solitaire2_slots]]

\* tile_clicked, game_mode solitaire2, on any tile; the call records the
\* tile, whether it was available, and the tiles and slots it found
TileClickedSolitaire2Call ==
    \E tile \in DOMAIN tiles :
        /\ ret.op = "none"
        /\ ret' = [op |-> "tile_clicked", a |-> tile,
                   b |-> [tiles |-> tiles, slots |-> solitaire2_slots],
                   k |-> 0,
                   val |-> is_tile_available(variant, tiles, tile)]
        /\ \/ tile_clicked_ignored(tile)
           \/ tile_clicked_direct_match(tile)
           \/ tile_clicked_place(tile)
        /\ UNCHANGED << variant, is_paused, threads, game_records, hints_remaining, pattern, pool, pc, attempt,
                        placements, gen_result, selected_tile, width, height,
                        shuffle_remaining, solitaire2_third_slot_unlocked >>

\* undo_last_move_solitaire2, called at most twice; the call records the
\* tile of the undo record it found and counts the calls
UndoLastMoveCall ==
    /\ ret.op # "undo" \/ ret.k < 2
    /\ ret' = [ret EXCEPT !.op = "undo",
                          !.a = solitaire2_last_move.tile,
                          !.k = IF ret.op = "undo" THEN 2 ELSE 1,
                          !.val = solitaire2_last_move # NoMove]
    /\ undo_last_move_solitaire2
    /\ UNCHANGED << variant, is_paused, threads, game_records, hints_remaining, pattern, pool, pc, attempt,
                    placements, gen_result, selected_tile, width, height,
                    shuffle_remaining, solitaire2_third_slot_unlocked,
                    solitaire2_pending_removal, timers >>

NextSlots ==
    \/ TileClickedSolitaire2Call
    \/ UndoLastMoveCall
    \/ RemoveMatchingTiles

SpecSlots == InitSlots /\ [][NextSlots]_vars

\* C20: in the slot variant a click on a removed tile or on a tile that is
\* not available is rejected with no state change: no slot, no tile flag and
\* not the undo record changes.
C20_RejectedSlotClick ==
    [][(ret.op = "none" /\ ret'.op = "tile_clicked"
          /\ (tiles[ret'.a].removed
                \/ ~is_tile_available(variant, tiles, ret'.a)))
        => /\ tiles' = tiles
           /\ solitaire2_slots' = solitaire2_slots
           /\ solitaire2_last_move' = solitaire2_last_move
           /\ solitaire2_pending_removal' = solitaire2_pending_removal
           /\ timers' = timers
           /\ game_over' = game_over]_vars

\* a live tile that lies under another tile was clicked while a slot was
\* free and a slot tile could be undone: nothing moved
C20_Witness ==
    /\ ret.op = "tile_clicked" /\ ~ret.val
    /\ ~tiles[ret.a].removed
    /\ covered_from_above(tiles, ret.a)
    /\ free_slot(solitaire2_slots, solitaire2_third_slot_unlocked) # NoSlot
    /\ solitaire2_last_move # NoMove

\* this step is a click of the slot variant on an available tile
SlotClickStep ==
    /\ ret.op = "none" /\ ret'.op = "tile_clicked"
    /\ is_tile_available(variant, tiles, ret'.a)

\* slots 0 and 1 are occupied and one of them holds the kind of the tile
direct_match(ts, slots, tile) ==
    /\ slots[1] # None /\ slots[2] # None
    /\ \/ ts[slots[1]].tile_type = ts[tile].tile_type
       \/ ts[slots[2]].tile_type = ts[tile].tile_type

\* C21: with slots 0 and 1 occupied, a click on an available tile whose kind
\* is held in slot 0 or slot 1 removes the clicked tile and the tile of the
\* first such slot in that step, empties that slot, leaves the other slots
\* and tiles as they were and clears the undo record; the clicked tile goes
\* to no slot.
C21_DirectMatchRemovesBoth ==
    [][(SlotClickStep /\ direct_match(tiles, solitaire2_slots, ret'.a))
        => LET n == IF tiles[solitaire2_slots[1]].tile_type
                        = tiles[ret'.a].tile_type THEN 1 ELSE 2
           IN /\ tiles'[ret'.a].removed
              /\ tiles'[solitaire2_slots[n]].removed
              /\ \A i \in DOMAIN tiles :
                    (i # ret'.a /\ i # solitaire2_slots[n])
                       => tiles'[i] = tiles[i]
              /\ solitaire2_slots' = [solitaire2_slots EXCEPT ![n] = None]
              /\ \A m \in 1..3 : solitaire2_slots'[m] # ret'.a
              /\ solitaire2_last_move' = NoMove]_vars

\* slots 0 and 1 held the same kind, a tile of that kind was clicked: slot 0
\* is empty, slot 1 still holds its tile, the clicked tile is off the board
C21_Witness ==
    /\ ret.op = "tile_clicked" /\ ret.val
    /\ solitaire2_slots[1] = None /\ solitaire2_slots[2] # None
    /\ tiles[solitaire2_slots[2]].tile_type = tiles[ret.a].tile_type
    /\ tiles[ret.a].removed
    /\ \A m \in 1..3 : solitaire2_slots[m] # ret.a
    /\ solitaire2_pending_removal = FALSE
    /\ timers = 1

\* the slots a tile may be placed in: empty, and the third only if unlocked
permitted_free_slots ==
    {n \in 1..3 : /\ solitaire2_slots[n] = None
                  /\ n = 3 => solitaire2_third_slot_unlocked}

\* C22: a click on an available tile that is no direct match places the tile
\* in the lowest-numbered free slot among 0, 1 and, only if unlocked, 2,
\* marks it as off the board and records it as the undo entry; if no
\* permitted slot is free the click changes nothing.
C22_PlacementLowestFreeSlot ==
    [][(SlotClickStep /\ ~direct_match(tiles, solitaire2_slots, ret'.a))
        => IF permitted_free_slots = {}
           THEN /\ tiles' = tiles
                /\ solitaire2_slots' = solitaire2_slots
                /\ solitaire2_last_move' = solitaire2_last_move
           ELSE LET n == CHOOSE m \in permitted_free_slots :
                             \A o \in permitted_free_slots : m <= o
                IN /\ solitaire2_slots' = [solitaire2_slots EXCEPT ![n] = ret'.a]
                   /\ tiles' = [tiles EXCEPT ![ret'.a].removed = TRUE]
                   /\ solitaire2_last_move' =
                         [tile |-> ret'.a, x |-> tiles[ret'.a].x,
                          y |-> tiles[ret'.a].y, z |-> tiles[ret'.a].z,
                          slot_index |-> n - 1]]_vars

\* a clicked tile went to the unlocked third slot and is the undo entry
C22_Witness ==
    /\ ret.op = "tile_clicked" /\ ret.val
    /\ solitaire2_third_slot_unlocked
    /\ solitaire2_slots[3] = ret.a
    /\ tiles[ret.a].removed
    /\ solitaire2_last_move.tile = ret.a
    /\ solitaire2_last_move.slot_index = 2

---------------------------------------------------------------------------
(* The slot variant: the deferred removal *)

\* the games of InitSlots with every tile on the board or in slot 0 or 1
\* and no undo record
InitSlotsLive ==
    /\ InitSlots
    /\ \A i \in DOMAIN tiles :
          tiles[i].removed <=> (solitaire2_slots[1] = i \/ solitaire2_slots[2] = i)
    /\ solitaire2_slots[3] = None
    /\ solitaire2_last_move = NoMove

\* a started timer runs its callback: RemoveMatchingTiles is the only action
\* that lowers timers
TimerFires == timers > 0 /\ timers' = timers - 1

\* every threading.Timer started by a placement runs its callback
SpecSlotsLive ==
    InitSlotsLive /\ [][NextSlots]_vars /\ WF_timers(TimerFires)

\* the tile slot n (1, 2) held after the recorded click placed its tile
slot_after_click(n) ==
    IF ret.b.slots[n] = None THEN ret.a ELSE ret.b.slots[n]

\* the recorded click placed its tile, slots 0 and 1 hold equal kinds and
\* nothing has run since
placed_equal_pair ==
    /\ ret.op = "tile_clicked"
    /\ solitaire2_last_move.tile = ret.a
    /\ slots_match(tiles, solitaire2_slots)
    /\ solitaire2_pending_removal

\* the pair is gone: both tiles removed, slots 0 and 1 empty, no undo record
pair_removed ==
    /\ ret.op = "tile_clicked"
    /\ tiles[slot_after_click(1)].removed
    /\ tiles[slot_after_click(2)].removed
    /\ solitaire2_slots[1] = None
    /\ solitaire2_slots[2] = None
    /\ solitaire2_last_move = NoMove

\* C23: if after a placement slots 0 and 1 hold tiles of equal kind and no
\* other operation intervenes (no undo is called), the deferred removal
\* eventually runs: both tiles are removed, both slots are empty and the undo
\* record is cleared, so a following undo finds no record.
C23_DeferredRemoval == placed_equal_pair ~> (pair_removed \/ ret.op = "undo")

\* the deferred removal has run after a placement into slot 1
C23_Witness ==
    /\ pair_removed
    /\ ret.b.slots[1] # None /\ ret.b.slots[2] = None
    /\ tiles[ret.a].tile_type = tiles[ret.b.slots[1]].tile_type
    /\ ret.val
    /\ timers = 0

\* the last call was a click that put its tile into a slot, and the tile is
\* still there
placed_in_slot(n) ==
    /\ ret.op = "tile_clicked"
    /\ ret.b.slots[n] = None
    /\ solitaire2_slots[n] = ret.a

\* an undo_last_move_solitaire2 call directly after a placement
UndoAfterPlacement ==
    /\ \E n \in 1..3 : placed_in_slot(n)
    /\ ret'.op = "undo"

record_in_slot ==
    /\ solitaire2_last_move # NoMove
    /\ solitaire2_slots[solitaire2_last_move.slot_index + 1]
          = solitaire2_last_move.tile

\* C25: undo is single-level and guarded. With no record, or when the
\* recorded slot does not hold the recorded tile, an undo changes no tile and
\* no slot; otherwise it puts back exactly the recorded tile, which after a
\* placement is the tile placed last, and empties exactly its slot; the
\* record is gone afterwards, so an undo that follows an undo changes nothing.
C25_UndoSingleLevelGuarded ==
    [][ret'.op = "undo" /\ ret'.k # ret.k =>
          /\ solitaire2_last_move' = NoMove
          /\ ret.op = "undo" =>
                tiles' = tiles /\ solitaire2_slots' = solitaire2_slots
          /\ (\E n \in 1..3 : placed_in_slot(n)) /\ record_in_slot =>
                solitaire2_last_move.tile = ret.a
          /\ IF record_in_slot
             THEN LET tile == solitaire2_last_move.tile IN
                  /\ ~tiles'[tile].removed
                  /\ tiles'[tile].x = solitaire2_last_move.x
                  /\ tiles'[tile].y = solitaire2_last_move.y
                  /\ tiles'[tile].z = solitaire2_last_move.z
                  /\ \A i \in DOMAIN tiles : i # tile => tiles'[i] = tiles[i]
                  /\ \A n \in 1..3 :
                        solitaire2_slots'[n] =
                           IF solitaire2_slots[n] = tile THEN None
                           ELSE solitaire2_slots[n]
             ELSE tiles' = tiles /\ solitaire2_slots' = solitaire2_slots]_vars

\* a slot already held a tile, a second tile was placed, and undo has put
\* the second tile back
C25_Witness ==
    /\ ret.op = "undo" /\ ret.k = 1 /\ ret.val
    /\ tiles = ret.b.tiles
    /\ solitaire2_slots = ret.b.slots
    /\ ret.a \in DOMAIN tiles
    /\ ~tiles[ret.a].removed
    /\ solitaire2_slots[1] # None /\ solitaire2_slots[2] = None

---------------------------------------------------------------------------
\* Claims on the whole game (Spec), slot variant

\* C26: in the slot variant, in every reachable state, every tile that a
\* slot refers to is flagged as removed, no tile is referred to by two slots,
\* and slot 2 holds a tile only if the third slot has been unlocked.
C26_SlotInvariant ==
    variant = "solitaire2" =>
        /\ \A n \in 1..3 :
              solitaire2_slots[n] # None => tiles[solitaire2_slots[n]].removed
        /\ \A m, n \in 1..3 :
              m # n /\ solitaire2_slots[m] # None =>
                 solitaire2_slots[m] # solitaire2_slots[n]
        /\ solitaire2_slots[3] # None => solitaire2_third_slot_unlocked

\* all three slots are in use
C26_Witness ==
    /\ variant = "solitaire2"
    /\ pc = "playing"
    /\ \A n \in 1..3 : solitaire2_slots[n] # None
    /\ solitaire2_third_slot_unlocked

\* the finished flag goes up in this step
finished_now == ~game_over /\ game_over'

\* the step ends with every tile removed
won_now == is_game_won(tiles')

\* the player answers the no-move prompt with "end the game"
chose_end_at_prompt ==
    reshuffle_prompt_open /\ ~reshuffle_prompt_open' /\ tiles' = tiles

\* the player leaves a running solitaire2 game for the mode page
left_for_modes == variant = "solitaire2" /\ pc = "playing" /\ pc' = "modes"

\* C28 as stated: the finished flag is set only when all tiles are removed,
\* or when the no-move condition was reported and the player chose to end;
\* no other operation sets it.
C28_FinishedOnlyByWinOrPrompt ==
    [][finished_now => won_now \/ chose_end_at_prompt]_vars

\* C28 amended: the finished flag is set only when all tiles are removed,
\* when the player chose to end at the no-move prompt, or when the player
\* confirmed leaving a running game for the mode page.
C28_FinishedOnlyByWinPromptOrLeave ==
    [][finished_now => won_now \/ chose_end_at_prompt \/ left_for_modes]_vars

\* a game with tiles and moves left has been ended by leaving for the mode
\* page
C28_Witness ==
    /\ game_over
    /\ pc = "modes"
    /\ ~is_game_won(tiles)
    /\ ~reshuffle_prompt_open
    /\ has_possible_moves(variant, tiles, width, height)

---------------------------------------------------------------------------
\* Termination of the generation loop and of the connectivity search: the
\* generation phase of every variant, and one can_connect call on a board
\* of ConnW x ConnH cells or on the generated board.

InitTermination == Init \/ InitConnect

NextTermination ==
    \/ GenerateMain
    \/ GenerateFletShuffle
    \/ GenerateFletPlace
    \/ GenerateFletCheck
    \/ GenerateAttempt
    \/ GenerateExhausted
    \/ CanConnectCall

SpecTermination == InitTermination /\ [][NextTermination]_vars

\* the iterations of the while loop in can_connect(tile1, tile2, max_turns)
can_connect_pops(ts, w, h, tile1, tile2, max_turns, limit) ==
    IF tile1 = tile2 \/ ts[tile1].tile_type # ts[tile2].tile_type THEN 0
    ELSE LET start == <<ts[tile1].x, ts[tile1].y>>
             dest == <<ts[tile2].x, ts[tile2].y>>
         IN  search_pops(<< [x |-> start[1], y |-> start[2],
                             direction |-> NoDirection, turns |-> 0] >>,
                         [s \in { <<start[1], start[2], NoDirection>> } |-> 0],
                         dest, occupied(ts, tile1, tile2), w, h, max_turns,
                         0, limit)

\* can_connect(tile1, tile2, max_turns) appends some (x, y, direction,
\* turns) to its queue twice
can_connect_requeues(ts, w, h, tile1, tile2, max_turns) ==
    IF tile1 = tile2 \/ ts[tile1].tile_type # ts[tile2].tile_type THEN FALSE
    ELSE LET start == <<ts[tile1].x, ts[tile1].y>>
             dest == <<ts[tile2].x, ts[tile2].y>>
             first == [x |-> start[1], y |-> start[2],
                       direction |-> NoDirection, turns |-> 0]
         IN  search_requeues(<<first>>,
                             [s \in { <<start[1], start[2], NoDirection>> } |-> 0],
                             dest, occupied(ts, tile1, tile2), w, h, max_turns,
                             {first})

\* the start state, and every state (x, y, direction) of the region
\* -1..w by -1..h once for each turn count 0..max_turns
search_states(w, h, max_turns) == 1 + (w + 2) * (h + 2) * 4 * (max_turns + 1)

\* C29: the generation loop and the connectivity search terminate. Every
\* step that stays in the generation loop raises the attempt counter, which
\* never passes max_attempts, and the placed board is handed over in one
\* step; the while loop of can_connect runs at most once for the start and
\* once for every (x, y, direction) of the region and turn count, and
\* nothing is queued twice, since a state is queued again only with a
\* strictly lower turn count.
C29_LoopsTerminate ==
    [][/\ pc = "generating" /\ pc' = "generating" /\ ret' = ret =>
             attempt' = attempt + 1 /\ attempt' <= max_attempts
       /\ pc = "placed" /\ ret' = ret => pc' = "playing"
       /\ ret'.op = "can_connect" =>
             can_connect_pops(tiles', width', height', ret'.a, ret'.b, ret'.k,
                              search_states(width', height', ret'.k))
                <= search_states(width', height', ret'.k)
       /\ ret'.op = "can_connect" =>
             ~can_connect_requeues(tiles', width', height', ret'.a, ret'.b,
                                   ret'.k)]_vars

\* the generation loop has run out of attempts, and on its board a search
\* between two tiles of one kind has emptied its queue without a path
C29_Witness ==
    /\ gen_result = "warned"
    /\ ret.op = "can_connect"
    /\ ret.a # ret.b
    /\ tiles[ret.a].tile_type = tiles[ret.b].tile_type
    /\ ~ret.val

---------------------------------------------------------------------------
\* Paths with a bounded number of turns, for comparison with can_connect

\* the cells reached from cell c by going straight in direction d over free
\* cells
line_cells(c, d, dest, occ, w, h) ==
    LET at(n) == <<c[1] + n * directions[d + 1][1],
                   c[2] + n * directions[d + 1][2]>>
    IN  { at(n) : n \in { m \in 1..(w + h + 4) :
                            \A j \in 1..m :
                               is_free(at(j)[1], at(j)[2], dest, occ, w, h) } }

\* the <<cell, direction>> reached from `start` by a straight run
straight_from(start, dest, occ, w, h) ==
    UNION { { <<c, d>> : c \in line_cells(start, d, dest, occ, w, h) }
            : d \in 0..3 }

\* one more straight run in another direction
one_more_turn(reached, dest, occ, w, h) ==
    reached \cup
    UNION { UNION { { <<c, d>> : c \in line_cells(r[1], d, dest, occ, w, h) }
                    : d \in (0..3) \ {r[2]} }
            : r \in reached }

RECURSIVE runs(_, _, _, _, _, _)
runs(reached, turns, dest, occ, w, h) ==
    IF turns = 0 THEN reached
    ELSE runs(one_more_turn(reached, dest, occ, w, h), turns - 1, dest, occ, w, h)

\* an orthogonal path over free cells from tile1's cell to tile2's cell
\* with at most max_turns changes of direction
path_exists(ts, tile1, tile2, occ, w, h, max_turns) ==
    LET start == <<ts[tile1].x, ts[tile1].y>>
        dest == <<ts[tile2].x, ts[tile2].y>>
    IN  \/ start = dest
        \/ \E r \in runs(straight_from(start, dest, occ, w, h), max_turns,
                          dest, occ, w, h) : r[1] = dest

\* C30: can_connect(a, b, max_turns) is true exactly when a and b are
\* distinct tiles of one kind and an orthogonal path from a to b exists over
\* free cells (cells of no other non-removed tile, and the margin around the
\* board) with at most max_turns changes of direction.
C30_ConnectIffPath ==
    ret.op = "can_connect" =>
        ret.val = IF ret.a = ret.b \/ ~tile_eq(tiles, ret.a, ret.b) THEN FALSE
                  ELSE path_exists(tiles, ret.a, ret.b,
                                   occupied_all_others(tiles, ret.a, ret.b),
                                   width, height, ret.k)

---------------------------------------------------------------------------
\* The extended variant in mid-game: the 4 x 3 part of the one-layer board of
\* main_flet.py whose corner tiles have been matched away; the two inner
\* tiles have all four neighbours, and at least one of them is blocked.

ExtendedCells ==
    << <<1, 0, 0>>, <<2, 0, 0>>,
       <<0, 1, 0>>, <<1, 1, 0>>, <<2, 1, 0>>, <<3, 1, 0>>,
       <<1, 2, 0>>, <<2, 2, 0>> >>

\* kinds as generate_board and the matches leave them: every kind an even
\* number of times
paired_kinds(n) ==
    { kind \in [1..n -> Kinds] :
         \A k \in Kinds : Cardinality({i \in 1..n : kind[i] = k}) % 2 = 0 }

InitExtended ==
    /\ IdleSession
    /\ variant = "extended"
    /\ \E kind \in paired_kinds(Len(ExtendedCells)) :
          tiles = [i \in 1..Len(ExtendedCells) |->
                      Tile(kind[i], ExtendedCells[i][1], ExtendedCells[i][2],
                           ExtendedCells[i][3])]
    /\ \E i \in DOMAIN tiles : ~is_tile_available(variant, tiles, i)
    /\ selected_tile = None
    /\ width = 4
    /\ height = 3
    /\ game_over = FALSE
    /\ reshuffle_prompt_open = FALSE
    /\ shuffle_remaining = BaseShuffles
    /\ hints_remaining = BaseHints
    /\ pattern = << >>
    /\ pool = << >>
    /\ pc = "playing"
    /\ attempt = 0
    /\ placements = 0
    /\ gen_result = "playable"
    /\ solitaire2_slots = <<None, None, None>>
    /\ solitaire2_last_move = NoMove
    /\ solitaire2_third_slot_unlocked = FALSE
    /\ solitaire2_pending_removal = FALSE
    /\ timers = 0
    /\ ret = NoCall

\* One session on that board: at most one click, then at most one press of
\* the admin button, then at most one shuffle, then at most one hint; ret.k
\* is the rank of the last operation.
ExtendedFrame ==
    UNCHANGED <<variant, is_paused, threads, game_records, pattern, pool, pc, attempt, placements, gen_result,
                width, height, solitaire2_third_slot_unlocked,
                solitaire2_pending_removal, timers>>

TileClickedFletCall ==
    /\ ret.k < 1
    /\ \E tile \in DOMAIN tiles :
          /\ tile_clicked_flet(tile)
          /\ ret' = [NoCall EXCEPT !.op = "tile_clicked", !.a = tile, !.k = 1]
    /\ ExtendedFrame
    /\ UNCHANGED <<hints_remaining, shuffle_remaining, solitaire2_slots,
                   solitaire2_last_move>>

AdminRemove10TilesCall ==
    /\ ret.k < 2
    /\ admin_remove_10_tiles
    /\ ret' = [NoCall EXCEPT !.op = "admin_remove_10_tiles", !.k = 2]
    /\ ExtendedFrame
    /\ UNCHANGED <<hints_remaining, selected_tile, shuffle_remaining,
                   solitaire2_slots, solitaire2_last_move>>

RequestShuffleCall ==
    /\ ret.k < 3
    /\ DoRequestShuffle(reshuffle_prompt_open)
    /\ ret' = [NoCall EXCEPT !.op = "request_shuffle", !.k = 3]
    /\ ExtendedFrame
    /\ UNCHANGED hints_remaining

RequestHintCall ==
    /\ ret.k < 4
    /\ request_hint
    /\ ret' = [NoCall EXCEPT !.op = "request_hint", !.k = 4]
    /\ ExtendedFrame
    /\ UNCHANGED <<shuffle_remaining, solitaire2_slots, solitaire2_last_move>>

NextExtended ==
    \/ TileClickedFletCall
    \/ AdminRemove10TilesCall
    \/ RequestShuffleCall
    \/ RequestHintCall

SpecExtended == InitExtended /\ [][NextExtended]_vars

\* C27: in the classic and extended variants, in every reachable state at
\* most one tile has its selected flag set, and a tile has the flag set if
\* and only if it is the board's selected_tile.
C27_SelectedFlagIsSelectedTile ==
    variant \in {"classic", "extended"} =>
        /\ Cardinality({i \in DOMAIN tiles : tiles[i].selected}) <= 1
        /\ \A i \in DOMAIN tiles : tiles[i].selected <=> selected_tile = i

---------------------------------------------------------------------------
\* Generation from saved patterns whose extent differs from the width and
\* height Board.__init__ sets, and the can_connect calls made on the way.

\* patterns/*.json and _create_turtle_pattern: a pattern narrower and taller
\* than the default board (the turtle is 18 x 11 against 20 x 10), and a
\* pattern wider than the default board
extent_patterns ==
    { << << <<TRUE>>, <<FALSE>>, <<TRUE>> >> >>,
      << << <<TRUE, TRUE, TRUE>>, <<FALSE, FALSE, TRUE>> >> >> }

InitPatterns ==
    /\ IdleSession
    /\ variant \in GameModes
    /\ pattern \in extent_patterns
    /\ pool \in {doubled(pc_) : pc_ \in [1..pair_count_r11(variant, pattern) -> Kinds]}
    /\ pc = "generating"
    /\ attempt = 0
    /\ placements = 0
    /\ gen_result = "none"
    /\ tiles = << >>
    /\ selected_tile = None
    /\ width = DefaultWidth
    /\ height = DefaultHeight
    /\ game_over = FALSE
    /\ reshuffle_prompt_open = FALSE
    /\ shuffle_remaining = BaseShuffles
    /\ hints_remaining = BaseHints
    /\ solitaire2_slots = <<None, None, None>>
    /\ solitaire2_last_move = NoMove
    /\ solitaire2_third_slot_unlocked = FALSE
    /\ solitaire2_pending_removal = FALSE
    /\ timers = 0
    /\ ret = NoCall

NextPatterns ==
    \/ GenerateAttempt
    \/ GenerateExhausted
    \/ CanConnectCall

SpecPatterns == InitPatterns /\ [][NextPatterns]_vars

\* the cells the while loop of can_connect has appended to its queue
RECURSIVE search_entered(_, _, _, _, _, _, _)
search_entered(queue, seen, dest, occ, w, h, max_turns) ==
    IF queue = << >> THEN {}
    ELSE IF at_dest(Head(queue), dest, max_turns) THEN {}
    ELSE LET s == search_step(queue, seen, dest, occ, w, h, max_turns)
         IN  { <<s.queue[n].x, s.queue[n].y>> : n \in Len(queue)..Len(s.queue) }
             \cup search_entered(s.queue, s.seen, dest, occ, w, h, max_turns)

\* the cells can_connect(tile1, tile2, max_turns) enters
can_connect_entered(ts, w, h, tile1, tile2, max_turns) ==
    IF tile1 = tile2 \/ ts[tile1].tile_type # ts[tile2].tile_type THEN {}
    ELSE LET start == <<ts[tile1].x, ts[tile1].y>>
             dest == <<ts[tile2].x, ts[tile2].y>>
         IN  search_entered(<< [x |-> start[1], y |-> start[2],
                                direction |-> NoDirection, turns |-> 0] >>,
                            [s \in { <<start[1], start[2], NoDirection>> } |-> 0],
                            dest, occupied(ts, tile1, tile2), w, h, max_turns)

\* the pairs has_possible_moves hands to can_connect: the pairs of equal
\* available tiles in the order of its two loops, up to the first that
\* connects
has_possible_moves_calls(v, ts, w, h) ==
    LET available == get_available_tiles(v, ts)
        L == Len(available)
        equal(p) == p[1] < p[2] /\ tile_eq(ts, available[p[1]], available[p[2]])
        connects(p) == can_connect(ts, w, h, available[p[1]], available[p[2]],
                                   DefaultMaxTurns)
        before(q, p) == q[1] < p[1] \/ (q[1] = p[1] /\ q[2] < p[2])
        called == { p \in (1..L) \X (1..L) :
                      /\ equal(p)
                      /\ ~\E q \in (1..L) \X (1..L) :
                            equal(q) /\ before(q, p) /\ connects(q) }
    IN  IF L < 2 THEN {} ELSE { <<available[p[1]], available[p[2]]>> : p \in called }

\* the columns and rows of the pattern, inflated by one cell on each side
in_inflated_extent(c, p) ==
    /\ -1 <= c[1] /\ c[1] <= Len(p[1][1])
    /\ -1 <= c[2] /\ c[2] <= Len(p[1])

\* cell c lies in the pattern's extent, holds a non-removed tile other than
\* the endpoints and is not the target, and is_free took it for border
third_tile_as_border(ts, c, p, w, h, tile1, tile2) ==
    /\ 0 <= c[1] /\ c[1] < Len(p[1][1])
    /\ 0 <= c[2] /\ c[2] < Len(p[1])
    /\ c # <<ts[tile2].x, ts[tile2].y>>
    /\ \E u \in DOMAIN ts :
          u # tile1 /\ u # tile2 /\ ~ts[u].removed /\ <<ts[u].x, ts[u].y>> = c
    /\ (c[1] < 0 \/ c[1] >= w \/ c[2] < 0 \/ c[2] >= h)

\* the search of can_connect(tile1, tile2, max_turns) stays in the
\* pattern's inflated extent and takes no third tile for border
search_in_pattern(ts, p, w, h, tile1, tile2, max_turns) ==
    \A c \in can_connect_entered(ts, w, h, tile1, tile2, max_turns) :
        /\ in_inflated_extent(c, p)
        /\ ~third_tile_as_border(ts, c, p, w, h, tile1, tile2)

\* C31: in every can_connect call, those of generate_board's own check of
\* the freshly placed board included, the search enters only cells of the
\* pattern's columns and rows inflated by one cell on each side, and no
\* cell of the pattern's extent that holds a non-removed third tile is
\* taken for free border.
C31_SearchWithinPatternExtent ==
    [][/\ (pc = "generating" /\ ret' = ret) =>
             \A c \in has_possible_moves_calls(variant, tiles', width, height) :
                 search_in_pattern(tiles', pattern, width, height, c[1], c[2],
                                   DefaultMaxTurns)
       /\ (pc = "playing" /\ ret'.op = "can_connect" /\ ret.op = "none") =>
             search_in_pattern(tiles, pattern, width, height, ret'.a, ret'.b,
                               ret'.k)]_vars

---------------------------------------------------------------------------
\* The termination check against the click automaton, on the boards of
\* SpecBoard

\* click_tile(t1) and then click_tile(t2), from the board ts with no tile
\* armed and the game not over, remove both tiles
two_clicks_remove(v, ts, w, h, t1, t2) ==
    LET b1 == click_tile(v, ts, None, FALSE, w, h, t1)
        b2 == click_tile(v, b1.tiles, b1.selected_tile, FALSE, w, h, t2)
    IN  /\ ~ts[t1].removed /\ ~ts[t2].removed
        /\ b2.tiles[t1].removed /\ b2.tiles[t2].removed

\* the recorded call of has_possible_moves or is_game_lost said that a move
\* exists
said_move_exists ==
    IF ret.op = "is_game_lost" THEN ~ret.val ELSE ret.val

\* C32: classic and extended variant, no tile armed, game not over: the
\* termination check (has_possible_moves true, is_game_lost false) reports
\* a move exactly when two distinct tiles exist that click_tile removes
\* when they are clicked one after the other.
C32_TerminationAgreesWithClicks ==
    (/\ ret.op \in {"has_possible_moves", "is_game_lost"}
     /\ selected_tile = None /\ ~game_over) =>
        (said_move_exists <=>
            \E t1 \in DOMAIN tiles, t2 \in DOMAIN tiles :
                t1 # t2 /\ two_clicks_remove(variant, tiles, width, height, t1, t2))

\* the extended board is reported lost although two available tiles of one
\* kind are left: the two do not connect, and clicking them removes nothing
C32_Witness ==
    /\ variant = "extended"
    /\ ret.op = "is_game_lost" /\ ret.val
    /\ selected_tile = None /\ ~game_over
    /\ \E t1 \in DOMAIN tiles, t2 \in DOMAIN tiles :
          /\ t1 # t2 /\ tile_eq(tiles, t1, t2)
          /\ is_tile_available(variant, tiles, t1)
          /\ is_tile_available(variant, tiles, t2)
          /\ ~two_clicks_remove(variant, tiles, width, height, t1, t2)

---------------------------------------------------------------------------
\* The reshuffle prompt of the slot variant against the moves tile_clicked
\* accepts

\* an available board tile has the kind of the tile held in slot 0 or 1
slot_tile_matchable(ts, slots) ==
    \E i \in DOMAIN ts, n \in 1..2 :
        /\ slots[n] # None
        /\ is_tile_available("solitaire2", ts, i)
        /\ ts[i].tile_type = slot_kind(ts, slots, n)

\* two available board tiles of one kind exist and a slot is free to hold
\* the first of them
board_pair_placeable(ts, slots, third_unlocked) ==
    /\ free_slot(slots, third_unlocked) # NoSlot
    /\ \E i \in DOMAIN ts, j \in DOMAIN ts :
          /\ i # j /\ tile_eq(ts, i, j)
          /\ is_tile_available("solitaire2", ts, i)
          /\ is_tile_available("solitaire2", ts, j)

\* C33: slot variant: the step that opens the reshuffle prompt leaves a
\* state without a legal move: no available board tile has the kind of a
\* tile in slot 0 or 1, and no two available board tiles of one kind exist
\* while a slot is free for the first of them.
C33_PromptOnlyWithoutLegalMove ==
    [][(variant = "solitaire2" /\ ~reshuffle_prompt_open /\ reshuffle_prompt_open') =>
          /\ ~slot_tile_matchable(tiles', solitaire2_slots')
          /\ ~board_pair_placeable(tiles', solitaire2_slots',
                                   solitaire2_third_slot_unlocked')]_vars

---------------------------------------------------------------------------
\* The win of the slot variant

\* check_game_state finds every tile removed and finalises the game as a
\* win in this step
finalised_as_win ==
    /\ finished_now /\ won_now
    /\ ~chose_end_at_prompt /\ ~left_for_modes

\* C34: slot variant: when the game is finalised as a win, all three slots
\* are empty: no tile is still parked in a slot.
C34_WinWithEmptySlots ==
    [][(variant = "solitaire2" /\ finalised_as_win) =>
          solitaire2_slots' = <<None, None, None>>]_vars

---------------------------------------------------------------------------
\* Undo after the deferred removal, on the games of SpecSlots

\* C36: slot variant: when the player's last operation placed tile X into a
\* slot and X still sits in that slot, undo puts X back on the board at its
\* cell and empties the slot, also when the deferred removal of an equal
\* pair in slots 0 and 1 has fired between the placement and the undo.
C36_UndoRestoresLastPlacement ==
    [][\A n \in 1..3 :
          (placed_in_slot(n) /\ ret'.op = "undo") =>
             /\ ~tiles'[ret.a].removed
             /\ tiles'[ret.a].x = ret.b.tiles[ret.a].x
             /\ tiles'[ret.a].y = ret.b.tiles[ret.a].y
             /\ tiles'[ret.a].z = ret.b.tiles[ret.a].z
             /\ solitaire2_slots'[n] = None]_vars


---------------------------------------------------------------------------
(* The slot variant with its threads: the handlers of the page, the
   threading.Timer callback and the update_ui task it hands to the page *)

\* the boards start_new_game deals on the four cells: kinds in pairs
fresh_boards ==
    { [i \in 1..Len(SlotCells) |->
          Tile(kind[i], SlotCells[i][1], SlotCells[i][2], SlotCells[i][3])]
      : kind \in { k \in canonical_kinds :
                     \A c \in 1..SlotKindCount :
                         Cardinality({i \in DOMAIN k : k[i] = c}) % 2 = 0 } }

\* a game of the slot variant just started, the third slot not bought
InitThreads ==
    /\ IdleSession
    /\ variant = "solitaire2"
    /\ tiles \in fresh_boards
    /\ solitaire2_slots = <<None, None, None>>
    /\ solitaire2_last_move = NoMove
    /\ solitaire2_third_slot_unlocked = FALSE
    /\ solitaire2_pending_removal = FALSE
    /\ timers = 0
    /\ selected_tile = None
    /\ width = 2
    /\ height = 2
    /\ game_over = FALSE
    /\ reshuffle_prompt_open = FALSE
    /\ pattern = << >>
    /\ pool = << >>
    /\ pc = "playing"
    /\ attempt = 0
    /\ placements = 0
    /\ gen_result = "none"
    /\ shuffle_remaining = BaseShuffles
    /\ hints_remaining = BaseHints
    /\ ret = NoCall

\* what no handler of the slot variant writes
outside_session ==
    << variant, pattern, pool, pc, attempt, placements, gen_result,
       selected_tile, width, height, ret >>

\* check_game_state as the thread t runs it on the tiles ts, up to the
\* game_over test of finalize_game: on a won board the thread is inside
\* finalize_game, in stop_timer(), and board.game_over is not written yet
CheckGameState(t, ts, paused, prompt) ==
    LET st == check_game_state(variant, ts, width, height, game_over, prompt) IN
    IF paused
    THEN /\ reshuffle_prompt_open' = prompt
         /\ threads' = [threads EXCEPT ![t] = "idle"]
    ELSE /\ reshuffle_prompt_open' = st.reshuffle_prompt_open
         /\ threads' = [threads EXCEPT
                          ![t] = IF st.game_over /\ ~game_over
                                 THEN "finalize_game" ELSE "idle"]

\* finalize_game past stop_timer(): board.game_over = True, end_session,
\* add_record; its closing update_board() returns from check_game_state
FinalizeGame(t) ==
    /\ threads[t] = "finalize_game"
    /\ game_over' = TRUE
    /\ game_records' = game_records + 1
    /\ threads' = [threads EXCEPT ![t] = "idle"]
    /\ UNCHANGED outside_session
    /\ UNCHANGED << tiles, reshuffle_prompt_open, shuffle_remaining,
                    hints_remaining, solitaire2_slots, solitaire2_last_move,
                    solitaire2_third_slot_unlocked,
                    solitaire2_pending_removal, timers, is_paused >>

HandlerFinalizeGame == FinalizeGame("ui")

TaskFinalizeGame == FinalizeGame("task")

\* tile_clicked, game_mode solitaire2, in the handler thread
TileClickedThread ==
    /\ threads.ui = "idle"
    /\ ~start_button_visible(game_over)
    /\ ~is_paused
    /\ \E tile \in DOMAIN tiles :
          LET match == direct_match_slot(tiles, solitaire2_slots, tile)
              slot_index == free_slot(solitaire2_slots,
                                      solitaire2_third_slot_unlocked)
          IN
          /\ ~click_rejected(variant, tiles, tile)
          /\ IF match # NoSlot
             THEN LET ts == [tiles EXCEPT
                               ![tile].removed = TRUE,
                               ![solitaire2_slots[match + 1]].removed = TRUE] IN
                  /\ tiles' = ts
                  /\ solitaire2_slots' =
                        [solitaire2_slots EXCEPT ![match + 1] = None]
                  /\ solitaire2_last_move' = NoMove
                  /\ solitaire2_pending_removal' = FALSE
                  /\ UNCHANGED timers
                  /\ CheckGameState("ui", ts, is_paused, reshuffle_prompt_open)
             ELSE LET ts == taken_off_board(tiles, tile)
                      slots == [solitaire2_slots EXCEPT ![slot_index + 1] = tile]
                  IN
                  /\ slot_index # NoSlot
                  /\ tiles' = ts
                  /\ solitaire2_slots' = slots
                  /\ solitaire2_last_move' =
                        [tile |-> tile, x |-> tiles[tile].x, y |-> tiles[tile].y,
                         z |-> tiles[tile].z, slot_index |-> slot_index]
                  /\ IF slots_match(ts, slots)
                     THEN /\ timers < MaxTimers
                          /\ solitaire2_pending_removal' = TRUE
                          /\ timers' = timers + 1
                     ELSE UNCHANGED <<solitaire2_pending_removal, timers>>
                  /\ CheckGameState("ui", ts, is_paused, reshuffle_prompt_open)
    /\ UNCHANGED outside_session
    /\ UNCHANGED << game_over, game_records, is_paused, shuffle_remaining,
                    hints_remaining, solitaire2_third_slot_unlocked >>

\* undo_last_move_solitaire2 in the handler thread, with a record to undo
UndoThread ==
    /\ threads.ui = "idle"
    /\ solitaire2_last_move # NoMove
    /\ solitaire2_last_move' = NoMove
    /\ LET tile == solitaire2_last_move.tile
           slot_index == solitaire2_last_move.slot_index IN
       IF slot_differs(tiles, solitaire2_slots, slot_index, tile)
       THEN UNCHANGED <<tiles, solitaire2_slots, reshuffle_prompt_open, threads>>
       ELSE LET ts == restore_tile(tiles, solitaire2_last_move) IN
            /\ tiles' = ts
            /\ solitaire2_slots' =
                  [solitaire2_slots EXCEPT ![slot_index + 1] = None]
            /\ CheckGameState("ui", ts, is_paused, reshuffle_prompt_open)
    /\ UNCHANGED outside_session
    /\ UNCHANGED << game_over, game_records, is_paused, shuffle_remaining,
                    hints_remaining, solitaire2_third_slot_unlocked,
                    solitaire2_pending_removal, timers >>

\* request_shuffle past its early returns, entered with the prompt flag
\* as given
request_shuffle_thread(prompt) ==
    LET ts == slots_returned(tiles, solitaire2_slots) IN
    /\ shuffle_remaining' = shuffle_remaining - 1
    /\ solitaire2_slots' = <<None, None, None>>
    /\ solitaire2_last_move' = NoMove
    /\ IF Cardinality(remaining_tiles(ts)) <= 1
       THEN /\ tiles' = ts
            /\ CheckGameState("ui", ts, is_paused, prompt)
       ELSE \E ts2 \in reshuffle_remaining_tiles(ts) :
               /\ tiles' = ts2
               /\ CheckGameState("ui", ts2, is_paused, prompt)

\* the shuffle button in the handler thread
RequestShuffleThread ==
    /\ threads.ui = "idle"
    /\ ~start_button_visible(game_over)
    /\ ~is_paused
    /\ ~(shuffle_remaining <= 0 \/ game_over)
    /\ request_shuffle_thread(reshuffle_prompt_open)
    /\ UNCHANGED outside_session
    /\ UNCHANGED << game_over, game_records, is_paused, hints_remaining,
                    solitaire2_third_slot_unlocked,
                    solitaire2_pending_removal, timers >>

\* the prompt's reshuffle button: close_reshuffle_dialog, request_shuffle
HandleReshuffleThread ==
    /\ threads.ui = "idle"
    /\ reshuffle_prompt_open
    /\ IF start_button_visible(game_over) \/ is_paused
          \/ shuffle_remaining <= 0 \/ game_over
       THEN /\ reshuffle_prompt_open' = FALSE
            /\ UNCHANGED << tiles, shuffle_remaining, solitaire2_slots,
                            solitaire2_last_move, threads >>
       ELSE request_shuffle_thread(FALSE)
    /\ UNCHANGED outside_session
    /\ UNCHANGED << game_over, game_records, is_paused, hints_remaining,
                    solitaire2_third_slot_unlocked,
                    solitaire2_pending_removal, timers >>

\* the prompt's end button: close_reshuffle_dialog, finalize_game up to
\* its game_over test
HandleEndGameThread ==
    /\ threads.ui = "idle"
    /\ reshuffle_prompt_open
    /\ reshuffle_prompt_open' = FALSE
    /\ threads' = [threads EXCEPT
                     !.ui = IF game_over THEN "idle" ELSE "finalize_game"]
    /\ UNCHANGED outside_session
    /\ UNCHANGED << tiles, game_over, game_records, is_paused,
                    shuffle_remaining, hints_remaining, solitaire2_slots,
                    solitaire2_last_move, solitaire2_third_slot_unlocked,
                    solitaire2_pending_removal, timers >>

\* toggle_pause: the flag is flipped, then update_board() checks the game
TogglePause ==
    /\ threads.ui = "idle"
    /\ ~start_button_visible(game_over)
    /\ ~game_over
    /\ is_paused' = ~is_paused
    /\ CheckGameState("ui", tiles, ~is_paused, reshuffle_prompt_open)
    /\ UNCHANGED outside_session
    /\ UNCHANGED << tiles, game_over, game_records, shuffle_remaining,
                    hints_remaining, solitaire2_slots, solitaire2_last_move,
                    solitaire2_third_slot_unlocked,
                    solitaire2_pending_removal, timers >>

\* start_new_game from the start button finalize_game has shown: a new
\* Board and empty slots; solitaire2_last_move and
\* solitaire2_pending_removal are assigned as locals and is_paused is not
\* assigned, so the three keep their values and running timers go on
StartNewGame ==
    /\ threads.ui = "idle"
    /\ start_button_visible(game_over)
    /\ \E ts \in fresh_boards :
          /\ tiles' = ts
          /\ game_over' = FALSE
          /\ game_records' = 0
          /\ LET st == check_game_state(variant, ts, width, height, FALSE,
                                        reshuffle_prompt_open) IN
             IF is_paused
             THEN UNCHANGED <<reshuffle_prompt_open, threads>>
             ELSE /\ reshuffle_prompt_open' = st.reshuffle_prompt_open
                  /\ UNCHANGED threads
    /\ solitaire2_slots' = <<None, None, None>>
    /\ solitaire2_last_move' =
          IF solitaire2_last_move = NoMove THEN NoMove
          ELSE [tile |-> old_tile, x |-> 0, y |-> 0, z |-> 0,
                slot_index |-> solitaire2_last_move.slot_index]
    /\ hints_remaining' = BaseHints
    /\ shuffle_remaining' = BaseShuffles
    /\ UNCHANGED outside_session
    /\ UNCHANGED << is_paused, solitaire2_third_slot_unlocked,
                    solitaire2_pending_removal, timers >>

\* the timer callback remove_matching_tiles up to its two tests: with a
\* removal pending and equal kinds in slots 0 and 1 the thread goes on to
\* its writes, otherwise it clears the flag and ends
RemoveMatchingTilesTest ==
    /\ timers > 0
    /\ threads.timer = "idle"
    /\ timers' = timers - 1
    /\ IF solitaire2_pending_removal /\ slots_match(tiles, solitaire2_slots)
       THEN /\ threads' = [threads EXCEPT !.timer = "removing"]
            /\ UNCHANGED solitaire2_pending_removal
       ELSE /\ solitaire2_pending_removal' = FALSE
            /\ UNCHANGED threads
    /\ UNCHANGED outside_session
    /\ UNCHANGED << tiles, game_over, game_records, is_paused,
                    reshuffle_prompt_open, shuffle_remaining, hints_remaining,
                    solitaire2_slots, solitaire2_last_move,
                    solitaire2_third_slot_unlocked >>

\* the writes of remove_matching_tiles on the slots as they are by then:
\* `if solitaire2_slots[0]: solitaire2_slots[0].removed = True`, the same
\* for slot 1, both slots set to None, update_ui handed to the page
RemoveMatchingTilesWrite ==
    /\ threads.timer = "removing"
    /\ solitaire2_pending_removal' = FALSE
    /\ solitaire2_last_move' = NoMove
    /\ tiles' = [i \in DOMAIN tiles |->
                    IF i = solitaire2_slots[1] \/ i = solitaire2_slots[2]
                    THEN [tiles[i] EXCEPT !.removed = TRUE] ELSE tiles[i]]
    /\ solitaire2_slots' = [solitaire2_slots EXCEPT ![1] = None, ![2] = None]
    /\ threads' = [threads EXCEPT
                     !.timer = "idle",
                     !.task = IF @ = "idle" THEN "update_ui" ELSE @]
    /\ UNCHANGED outside_session
    /\ UNCHANGED << game_over, game_records, is_paused, reshuffle_prompt_open,
                    shuffle_remaining, hints_remaining,
                    solitaire2_third_slot_unlocked, timers >>

\* the update_ui task of the page: update_board(), check_game_state()
UpdateUi ==
    /\ threads.task = "update_ui"
    /\ CheckGameState("task", tiles, is_paused, reshuffle_prompt_open)
    /\ UNCHANGED outside_session
    /\ UNCHANGED << tiles, game_over, game_records, is_paused,
                    shuffle_remaining, hints_remaining, solitaire2_slots,
                    solitaire2_last_move, solitaire2_third_slot_unlocked,
                    solitaire2_pending_removal, timers >>

NextThreads ==
    \/ TileClickedThread
    \/ UndoThread
    \/ RequestShuffleThread
    \/ HandleReshuffleThread
    \/ HandleEndGameThread
    \/ TogglePause
    \/ StartNewGame
    \/ HandlerFinalizeGame
    \/ RemoveMatchingTilesTest
    \/ RemoveMatchingTilesWrite
    \/ UpdateUi
    \/ TaskFinalizeGame

SpecThreads == InitThreads /\ [][NextThreads]_vars


\* C35: in every interleaving of the removal callback with clicks, undo,
\* shuffle and a new game: when the callback writes while a removal is
\* pending and slots 0 and 1 hold tiles of one kind, it flags exactly
\* those two tiles removed and empties both slots; in every other case,
\* and in its tests, it changes no tile and no slot
C35_CallbackRemovesOnlyPendingEqualPair ==
    [][/\ (threads.timer = "idle" /\ timers' = timers - 1) =>
             /\ tiles' = tiles
             /\ solitaire2_slots' = solitaire2_slots
       /\ (threads.timer = "removing" /\ threads'.timer = "idle") =>
             IF /\ solitaire2_pending_removal
                /\ solitaire2_slots[1] # None
                /\ solitaire2_slots[2] # None
                /\ tiles[solitaire2_slots[1]].tile_type =
                      tiles[solitaire2_slots[2]].tile_type
             THEN /\ tiles' = [tiles EXCEPT
                                 ![solitaire2_slots[1]].removed = TRUE,
                                 ![solitaire2_slots[2]].removed = TRUE]
                  /\ solitaire2_slots' = <<None, None, solitaire2_slots[3]>>
             ELSE /\ tiles' = tiles
                  /\ solitaire2_slots' = solitaire2_slots]_vars

\* C37: while the game is paused or board.game_over is true, no click,
\* shuffle, undo or removal callback changes a tile's removed flag, a
\* tile's kind or a slot (a step that starts a new game deals a new board)
C37_NoLifecycleChangeOutsidePlay ==
    [][((is_paused \/ game_over) /\ ~(game_over /\ ~game_over')) =>
          /\ \A i \in DOMAIN tiles :
                /\ tiles'[i].removed = tiles[i].removed
                /\ tiles'[i].tile_type = tiles[i].tile_type
          /\ solitaire2_slots' = solitaire2_slots]_vars

====
